---------------------------- MODULE Spec2Model ----------------------------
(***************************************************************************)
(* Model of the Drive -> Photos synchronisation engine                    *)
(* (sync_engine.py, photos_client.py, drive_client.py).                   *)
(*                                                                         *)
(* A file of the filtered list is identified by its 1-based position in   *)
(* media_files; media_files[i] is the file's md5Checksum (NoHash when the *)
(* metadata carries none).  The upload token of file i is written i; the  *)
(* library of the target is the sequence of the upload tokens its items   *)
(* were created from, and its k-th item has the identifier ItemBase + k.  *)
(*                                                                         *)
(* The remote services are scripted: a script gives, for each of the      *)
(* max_retries + 1 attempts an operation may make, what the service does  *)
(* at that attempt ("ok", an HttpError, or any other exception); for      *)
(* create-items it may also answer with incomplete results.               *)
(*                                                                         *)
(* Spec is a run of sync() over one folder without subfolders.  ListSpec   *)
(* is the run up to the end of the listing, over folder trees; a listed    *)
(* entry is a number, FolderBase + j for the subfolder j.  FilterSpec is   *)
(* one call of _filter_files of an engine with filters configured, and     *)
(* NameSpec one call of generate_unique_filename.  ListFairSpec is ListSpec *)
(* with the fairness of a sequential program, GraphSpec the listing over   *)
(* folder structures that are no trees, and MainSpec the command main()    *)
(* around a run of sync().                                                 *)
(***************************************************************************)
EXTENDS Integers, Sequences, FiniteSets, TLC

VARIABLES
    skip_errors,                  \* SyncEngine.skip_errors
    launch_browser,               \* SyncEngine.launch_browser
    media_files,                  \* the filtered list (sequence of hashes)
    pc,                           \* position of the run inside sync()
    batch_start,                  \* loop variable of _process_files_in_batches
    idx,                          \* file the _upload_files loop is at
    upload_tokens_and_filenames,  \* tokens staged in the current batch
    file_mapping,                 \* files staged in the current batch
    results,                      \* upload_results of the current batch
    processed_hashes,             \* ProcessedHashSet of the run
    success_count,
    skip_count,
    error_count,
    printed,                      \* SyncResults printed so far, in order
    batch_log,                    \* <<first, last>> of every batch_files slice
    download_calls,               \* files download_file was called for
    upload_calls,                 \* files upload_media was called for
    create_calls,                 \* argument of every batch_create_media_items
    add_calls,                    \* argument of every batch_add_media_to_album
    last_calls,                   \* the client calls made by the last step
    summary,                      \* the logged "Results:" line, or NoSummary
    browser_opened,               \* webbrowser.open was called
    faults,                       \* scripted calls that did not succeed at once
    \* arguments of sync() and the run's front end
    album_id,                     \* sync(album_id=...), None when not given
    album_name,                   \* sync(album_name=...), None when not given
    target_album_id,              \* local target_album_id of sync()
    all_files,                    \* local all_files of sync()
    auth_calls,                   \* number of GoogleAuth.authenticate calls
    album_list_calls,             \* albums().list requests made so far
    create_album_calls,           \* title of every albums().create request
    list_requests,                \* files().list requests made so far
    folders_to_process,           \* local queue of list_files_recursive
    current_folder,               \* folder list_files_in_folder is listing
    page_token,                   \* local page_token of list_files_in_folder
    list_log,                     \* every files().list request, in order
    staged_filenames,             \* filename of every upload_media call
    add_album_ids,                \* album of every batch_add_media_to_album
    browser_url,                  \* URL given to webbrowser.open, or None
    \* the services the run talks to
    albums,                       \* pages of the Photos album list
    album_content,                \* media items the existing albums hold
    drive_files,                  \* entries of the Drive folder, in order
    subfolders,                   \* entries of each of its descendant folders
    page_fill,                    \* entries the service puts in one page
    flaky,                        \* the services may fail calls in this run
    \* one call of utils.generate_unique_filename
    name_pc,                      \* position inside the call
    original_name,                \* argument original_name
    existing_names,               \* argument existing_names
    counter,                      \* local counter
    new_name,                     \* the returned name, <<>> before the return
    \* one call of SyncEngine._filter_files
    filter_pc,                    \* position inside the call
    records,                      \* argument all_files
    file_types,                   \* SyncEngine.file_types, <<>> for None
    regex_filter,                 \* SyncEngine.regex_filter, or None
    min_size_kb,                  \* SyncEngine.min_size_kb: <<>> or <<n>>
    max_size_mb,                  \* SyncEngine.max_size_mb: <<>> or <<n>>
    kept,                         \* local media_files of _filter_files
    stage_log,                    \* input and output of every stage applied
    library,                      \* upload token of every item on the target
    album_items,                  \* identifiers of the items added to the album
    media_item_ids,               \* what the last batch_create_media_items returned
    drive_folder_input,           \* main(): the drive-folder-id argument_input
    album_input,                  \* main(): the album-name argument
    exit_code                     \* status the command exited with, if it has

\* the arguments and the services, which no step of a run changes
envvars == <<skip_errors, launch_browser, album_id, album_name, albums,
             album_content, drive_files, subfolders, page_fill, flaky>>

\* state of the front end of sync()
frontvars == <<target_album_id, all_files, auth_calls, album_list_calls,
               create_album_calls, list_requests, folders_to_process,
               current_folder, page_token, list_log>>

\* what the processing phase hands to the target service
sentvars == <<staged_filenames, add_album_ids, browser_url>>

\* state of generate_unique_filename
namevars == <<name_pc, original_name, existing_names, counter, new_name>>

\* state of _filter_files
filtervars == <<filter_pc, records, file_types, regex_filter, min_size_kb,
                max_size_mb, kept, stage_log>>

\* the media items of the target service and the identifiers handed back
itemvars == <<library, album_items, media_item_ids>>

\* state of main() around sync()
mainvars == <<drive_folder_input, album_input, exit_code>>

vars == <<skip_errors, launch_browser, media_files, pc, batch_start, idx,
          upload_tokens_and_filenames, file_mapping, results,
          processed_hashes, success_count, skip_count, error_count, printed,
          batch_log, download_calls, upload_calls, create_calls, add_calls,
          last_calls, summary, browser_opened, faults,
          album_id, album_name, target_album_id, all_files, auth_calls,
          album_list_calls, create_album_calls, list_requests,
          staged_filenames, add_album_ids, browser_url, albums,
          album_content, drive_files, subfolders, page_fill, flaky,
          folders_to_process, current_folder, page_token, list_log,
          name_pc, original_name, existing_names, counter, new_name,
          filter_pc, records, file_types, regex_filter, min_size_kb,
          max_size_mb, kept, stage_log, library, album_items,
          media_item_ids, drive_folder_input, album_input, exit_code>>

\* state of a run of sync() after its front end
runvars == <<pc, media_files, batch_start, idx, upload_tokens_and_filenames,
             file_mapping, results, processed_hashes, success_count,
             skip_count, error_count, printed, batch_log, download_calls,
             upload_calls, create_calls, add_calls, last_calls, summary,
             browser_opened, faults>>

---------------------------------------------------------------------------
(* Program constants *)

BatchSize == 50
max_retries == 2
pageSize == 100          \* files().list(pageSize=100)

(* Bounds of the model *)

MaxSmallFiles == 3       \* short lists have 0 .. MaxSmallFiles files
MaxFaults == 2           \* faulty calls in a run over a short list
MaxFaultsLong == 1       \* faulty calls in a run over a longer list
MaxAlbumPages == 2       \* pages of the album list
MaxTaken == 10           \* generated names <base>_1 .. taken in a row
MaxGaps == 3             \* generated names of which any subset is taken
MaxSubfolders == 2       \* descendant folders of a listed folder tree
MaxRecords == 2          \* records in a list given to the filter chain
MaxRequests == 12        \* files().list requests of one traversal

NoHash == 0
NoSummary == <<>>
None == "None"           \* Python's None
NotMedia == 9            \* a listed file that is neither image nor video
RootFolder == 0          \* the folder sync() is given; subfolders are 1, 2, ...
FolderBase == 100        \* entry FolderBase + j is the subfolder j
ItemBase == 1000         \* the k-th item of the library has identifier ItemBase + k
NoToken == 0             \* pageToken=None; token k continues after page k

Min(a, b) == IF a < b THEN a ELSE b

RECURSIVE Pow2(_)
Pow2(k) == IF k = 0 THEN 1 ELSE 2 * Pow2(k - 1)

---------------------------------------------------------------------------
(* Inputs: the filtered lists and the service scripts *)

\* list lengths: short lists, and lists of one full batch, one batch and
\* one file, two full batches, and two batches and a shorter third one
FileCounts ==
    (0 .. MaxSmallFiles) \cup
    {BatchSize, BatchSize + 1, 2 * BatchSize, 2 * BatchSize + 20}

\* hash of file i repeats with period p; period 0 is "no md5Checksum"
HashPeriods == {0, 2}

MkFiles(n, p) ==
    [i \in 1 .. n |-> IF p = 0 THEN NoHash ELSE ((i - 1) % p) + 1]

FileLists == {MkFiles(n, p) : n \in FileCounts, p \in HashPeriods}

ShortLists == {MkFiles(n, p) : n \in 0 .. MaxSmallFiles, p \in HashPeriods}

\* a folder in which a non-media file precedes every media file
Mixed(list) ==
    [i \in 1 .. (2 * Len(list) + 1) |->
        IF i % 2 = 1 THEN NotMedia ELSE list[i \div 2]]

\* folders explored with services that never fail
QuietFolders == ShortLists \cup {Mixed(l) : l \in ShortLists}

\* folders explored when the album list is explored
TinyFolders == {MkFiles(n, 0) : n \in 0 .. 1}

\* name of the media file at position i of the filtered list: files at odd
\* positions share one name, as files of different subfolders may
FileName(i) == IF i % 2 = 1 THEN "photo1.jpg" ELSE "photo2.jpg"

AlbumIdArgs == {None, "album123"}
AlbumNameArgs == {None, "My Album"}

\* titles of the albums of the library: the name asked for, and that name
\* in another case
AlbumTitles == {"My Album", "my album"}
PageLengths == {0, 1, 2}

\* identifier of the k-th album of page p
AlbumIds == <<"album1", "album2", "album3", "album4",
              "album5", "album6", "album7", "album8">>
AlbumIdAt(p, k) == AlbumIds[2 * (p - 1) + k]
CreatedAlbumId == "album_new"

TitlePages == UNION {[1 .. l -> AlbumTitles] : l \in PageLengths}

MkAlbums(titles) ==
    [p \in 1 .. Len(titles) |->
        [k \in 1 .. Len(titles[p]) |->
            [title |-> titles[p][k], id |-> AlbumIdAt(p, k)]]]

\* the album list: one page at least, the last one without nextPageToken
AlbumLists ==
    {MkAlbums(t) : t \in UNION {[1 .. p -> TitlePages] : p \in 1 .. MaxAlbumPages}}

\* the album list of the runs that do not explore it: the name asked for is
\* the title of the only album
OneAlbum == MkAlbums(<< <<"My Album">> >>)

\* media items an existing album may hold before the run: none, or the item
\* the target service returns for the first file
AlbumContents == {{}, {[id |-> 1, filename |-> FileName(1)]}}

FailKinds == {"http", "other"}
Attempts == 1 .. (max_retries + 1)

OkScript == [a \in Attempts |-> "ok"]

\* what the service does at each attempt; attempts after the first
\* successful one are never made, so they are fixed to "ok"
Scripts ==
    {s \in [Attempts -> FailKinds \cup {"ok"}] :
        \A a \in Attempts : s[a] = "ok" =>
            \A b \in Attempts : b > a => s[b] = "ok"}

Faulty(script) == script[1] # "ok"

ScriptsWithin(budget) == IF budget > 0 THEN Scripts ELSE {OkScript}

\* answers of batchCreate: a failing request as above, or an answer whose
\* results are incomplete at the first attempt, or at every attempt
CreateScripts ==
    Scripts \cup {<<"partial", "ok", "ok">>, <<"short", "ok", "ok">>,
                  <<"partial", "partial", "partial">>}

CreateScriptsWithin(budget) == IF budget > 0 THEN CreateScripts ELSE {OkScript}

\* number of calls of a run the scripts may make faulty
FaultBudget(n) == IF n <= MaxSmallFiles THEN MaxFaults ELSE MaxFaultsLong

\* files whose download or staging the scripts may fail: every file of a
\* short list; in a longer list the first and the last file of each batch
FlakyFiles(n) ==
    IF n <= MaxSmallFiles
    THEN 1 .. n
    ELSE {i \in 1 .. n : i % BatchSize \in {0, 1}} \cup {n}

StageBudget(n, file, used) ==
    IF flaky /\ file \in FlakyFiles(n) THEN FaultBudget(n) - used ELSE 0
CommitBudget(n, used) == IF flaky THEN FaultBudget(n) - used ELSE 0

---------------------------------------------------------------------------
(* The retry loops of the two clients *)

\* what one client operation did: the attempts it made, the waits between
\* them, and either the attempt whose result it returned or the error raised
CallRecord(op, arg, script, raised, error, attempts, sleeps, returned) ==
    [op |-> op, arg |-> arg, outcomes |-> SubSeq(script, 1, attempts),
     raised |-> raised, error |-> error, attempts |-> attempts,
     sleeps |-> sleeps, returned |-> returned]

\* for attempt in range(max_retries + 1): try ... except <caught> as e:
\*     if attempt < max_retries: time.sleep(2 ** attempt) else: raise
\* An exception the except clause does not name leaves the loop at once.
RECURSIVE RetryLoop(_, _, _, _, _, _)
RetryLoop(op, arg, script, caught, attempt, sleeps) ==
    LET outcome == script[attempt + 1] IN
    IF outcome = "ok"
    THEN CallRecord(op, arg, script, FALSE, "none", attempt + 1, sleeps,
                    attempt + 1)
    ELSE IF outcome \notin caught
    THEN CallRecord(op, arg, script, TRUE, outcome, attempt + 1, sleeps, 0)
    ELSE IF attempt < max_retries
    THEN RetryLoop(op, arg, script, caught, attempt + 1,
                   Append(sleeps, Pow2(attempt)))
    ELSE CallRecord(op, arg, script, TRUE, outcome, attempt + 1, sleeps, 0)

\* DriveClient.download_file: except Exception
download_file(file_id, script) ==
    RetryLoop("download", file_id, script, FailKinds, 0, <<>>)

\* PhotosClient.upload_media: except Exception
upload_media(file_id, script) ==
    RetryLoop("upload", file_id, script, FailKinds, 0, <<>>)

\* what mediaItems().batchCreate may answer besides one item per token:
\* "partial" has an item for every token but the last, whose result carries
\* a failure status; "short" has results, all with an item, for every token
\* but the last
CreateAnswers == {"partial", "short"}

\* create_result.get('newMediaItemResults', []) of one attempt: the upload
\* tokens of the results that carry a 'mediaItem', in request order, and the
\* number of results that carry only a status
newMediaItemResults(tokens, answer) ==
    IF answer = "ok"
    THEN [items |-> tokens, failures |-> 0]
    ELSE IF answer = "partial"
    THEN [items |-> SubSeq(tokens, 1, Len(tokens) - 1), failures |-> 1]
    ELSE IF answer = "short"
    THEN [items |-> SubSeq(tokens, 1, Len(tokens) - 1), failures |-> 0]
    ELSE [items |-> <<>>, failures |-> 0]

\* upload tokens of the items the service created at one attempt
ItemsMade(tokens, answer) == newMediaItemResults(tokens, answer).items

\* upload tokens of the items created by the first n attempts of one call
RECURSIVE ItemsMadeUpTo(_, _, _)
ItemsMadeUpTo(tokens, script, n) ==
    IF n = 0 THEN <<>>
    ELSE ItemsMadeUpTo(tokens, script, n - 1) \o ItemsMade(tokens, script[n])

\* one pass of the try block of batch_create_media_items: "ok" when it
\* reaches the break, else the kind of the exception it raises; the two
\* raise Exception(...) statements raise a plain Exception
CreateAttempt(tokens, answer) ==
    IF answer \in FailKinds THEN answer
    ELSE IF /\ newMediaItemResults(tokens, answer).items = <<>>
            /\ newMediaItemResults(tokens, answer).failures = 0
    THEN "other"
    ELSE IF newMediaItemResults(tokens, answer).failures > 0
    THEN "other"
    ELSE "ok"

\* PhotosClient.batch_create_media_items: except Exception.  The engine
\* passes at most BatchSize tokens, so range(0, len, 50) is one chunk.
batch_create_media_items(tokens, script) ==
    RetryLoop("create", tokens,
              [a \in Attempts |-> CreateAttempt(tokens, script[a])],
              FailKinds, 0, <<>>)

\* batch_ids of the attempt that reached the break: the identifiers the
\* service gave the items of that attempt's results
ReturnedIds(lib, tokens, script, call) ==
    IF call.raised THEN <<>>
    ELSE LET before == Len(lib) + Len(ItemsMadeUpTo(tokens, script,
                                                    call.returned - 1))
             made   == ItemsMade(tokens, script[call.returned])
         IN  [j \in 1 .. Len(made) |-> ItemBase + before + j]

\* the library after a batch_create_media_items call: every attempt's items
\* are on the target, and no branch of the engine deletes one
LibraryAfterCommit_Compensated(lib, made, failed) ==
    IF failed THEN lib ELSE lib \o made

LibraryAfterCommit(lib, made, failed) == lib \o made

\* PhotosClient.batch_add_media_to_album: except HttpError
batch_add_media_to_album(item_ids, script) ==
    RetryLoop("add", item_ids, script, {"http"}, 0, <<>>)

---------------------------------------------------------------------------
(* The front end of sync(): arguments, album resolution, listing, filter *)

\* truth value Python gives an argument in "if album_id:"
Truthy(x) == x \notin {None, ""}

\* the arguments are not checked
ArgumentsGiven_Unchecked(id, name) == TRUE

\* sync(): if album_id ... elif album_name ... else raise ValueError
ArgumentsGiven(id, name) == Truthy(id) \/ Truthy(name)

\* first album of a page whose title is the name, 0 when there is none
MatchOnPage(page, name) ==
    LET ks == {k \in 1 .. Len(page) : page[k].title = name} IN
    IF ks = {} THEN 0 ELSE CHOOSE k \in ks : \A j \in ks : k <= j

\* the scan goes on to the next page after a match
RECURSIVE find_album_by_name_LastMatch(_, _, _)
find_album_by_name_LastMatch(name, pages, p) ==
    LET k    == MatchOnPage(pages[p], name)
        here == IF k > 0 THEN pages[p][k].id ELSE None
        rest == IF p < Len(pages)
                THEN find_album_by_name_LastMatch(name, pages, p + 1)
                ELSE [id |-> None, requests |-> p]
    IN [id |-> IF rest.id # None THEN rest.id ELSE here,
        requests |-> rest.requests]

\* PhotosClient.find_album_by_name from page p on: the identifier found, or
\* None, and the number of albums().list requests made
RECURSIVE find_album_by_name(_, _, _)
find_album_by_name(name, pages, p) ==
    LET k == MatchOnPage(pages[p], name) IN
    IF k > 0
    THEN [id |-> pages[p][k].id, requests |-> p]
    ELSE IF p < Len(pages)
    THEN find_album_by_name(name, pages, p + 1)
    ELSE [id |-> None, requests |-> p]

\* PhotosClient.get_or_create_album, with PhotosClient.create_album
get_or_create_album(name, pages) ==
    LET found == find_album_by_name(name, pages, 1) IN
    IF Truthy(found.id)
    THEN [id |-> found.id, requests |-> found.requests, created |-> <<>>]
    ELSE [id |-> CreatedAlbumId, requests |-> found.requests,
          created |-> <<name>>]

\* the album is looked up by name whenever a name is given
TargetAlbum_NameFirst(id, name, pages) ==
    IF Truthy(name)
    THEN get_or_create_album(name, pages)
    ELSE [id |-> id, requests |-> 0, created |-> <<>>]

\* sync(): "Determine target album ID"
TargetAlbum(id, name, pages) ==
    IF Truthy(id)
    THEN [id |-> id, requests |-> 0, created |-> <<>>]
    ELSE get_or_create_album(name, pages)

\* files().list pages a folder of n entries is returned in
NumPages(n) == IF n = 0 THEN 1 ELSE (n + page_fill - 1) \div page_fill

\* the page the k-th files().list request of a folder returns
PageOf(folder, k) ==
    SubSeq(folder, (k - 1) * page_fill + 1, Min(k * page_fill, Len(folder)))

\* nextPageToken is ignored: the listing ends after its first page
HasNextPage_Never(folder, k) == FALSE

\* results.get('nextPageToken') of the k-th response
HasNextPage(folder, k) == k < NumPages(Len(folder))

\* the token is returned with every page, the last one included
nextPageToken_Always(folder, k) == k

\* page_token = results.get('nextPageToken') after the k-th response
nextPageToken(folder, k) == IF HasNextPage(folder, k) THEN k ELSE NoToken

\* file_info.get('mimeType') == 'application/vnd.google-apps.folder'
IsFolder(entry) == entry >= FolderBase

FolderEntry(j) == FolderBase + j

\* the entries of the folder with identifier id
Listing(id) == IF id = RootFolder THEN drive_files ELSE subfolders[id]

\* the folder is taken from the end of the list
Dequeue_Last(queue) ==
    [folder |-> queue[Len(queue)], rest |-> SubSeq(queue, 1, Len(queue) - 1)]

\* the folder stays in the list
Dequeue_Peek(queue) == [folder |-> Head(queue), rest |-> queue]

\* current_folder = folders_to_process.pop(0)
Dequeue(queue) == [folder |-> Head(queue), rest |-> Tail(queue)]

\* folders are yielded like files
Yielded_All(page) == page

\* list_files_recursive: the entries of a page it yields
Yielded(page) == SelectSeq(page, LAMBDA e : ~IsFolder(e))

\* list_files_recursive: the identifiers it appends to folders_to_process
Subfolders(page) ==
    LET entries == SelectSeq(page, IsFolder) IN
    [k \in 1 .. Len(entries) |-> entries[k] - FolderBase]

\* what a files().list request may do
ListOutcomes == IF flaky THEN {"ok"} \cup FailKinds ELSE {"ok"}

\* the error of a listing request ends the listing as if it were complete
ListRaises_Swallowed(outcome) == FALSE

\* list_files_in_folder: except HttpError: raise; any other exception
\* leaves the generator as well
ListRaises(outcome) == outcome # "ok"

\* DriveClient.is_media_file
is_media_file(entry) == entry # NotMedia

\* no filter is applied
_filter_files_Unfiltered(files) == files

\* SyncEngine._filter_files of an engine built without file_types,
\* regex_filter and size limits
_filter_files(files) == SelectSeq(files, is_media_file)

\* PhotosClient.get_album_url
get_album_url(id) == "https://photos.google.com/lr/album/" \o id

---------------------------------------------------------------------------
(* utils.generate_unique_filename; a name is its sequence of characters *)

Digits == <<"0", "1", "2", "3", "4", "5", "6", "7", "8", "9">>

\* str(counter)
RECURSIVE str(_)
str(n) ==
    IF n < 10 THEN <<Digits[n + 1]>>
    ELSE str(n \div 10) \o <<Digits[(n % 10) + 1]>>

\* the name is split at its first dot
SplitAt_FirstDot(name) ==
    LET dots == {i \in 1 .. Len(name) : name[i] = "."} IN
    IF dots = {} THEN 0 ELSE CHOOSE i \in dots : \A j \in dots : i <= j

\* position original_name.rsplit('.', 1) splits at, 0 when it does not
SplitAt(name) ==
    LET dots == {i \in 1 .. Len(name) : name[i] = "."} IN
    IF dots = {} THEN 0 ELSE CHOOSE i \in dots : \A j \in dots : i >= j

\* base_name = name_parts[0]
base_name(name) ==
    IF SplitAt(name) = 0 THEN name ELSE SubSeq(name, 1, SplitAt(name) - 1)

\* extension = f".{name_parts[1]}" if len(name_parts) > 1 else ""
extension(name) ==
    IF SplitAt(name) = 0 THEN <<>>
    ELSE <<".">> \o SubSeq(name, SplitAt(name) + 1, Len(name))

\* f"{base_name}_{counter}{extension}"
NumberedName(name, n) ==
    base_name(name) \o <<"_">> \o str(n) \o extension(name)

\* the names the function is called with: a.jpg, doc, a.b.c, .h and x.
OriginalNames ==
    { <<"a", ".", "j", "p", "g">>, <<"d", "o", "c">>,
      <<"a", ".", "b", ".", "c">>, <<".", "h">>, <<"x", ".">> }

OtherName == <<"z", ".", "j", "p", "g">>

\* the sets of existing names the function is called with: the name and its
\* first m numbered names for every m up to MaxTaken, and every set made of
\* the name, its first MaxGaps numbered names and one unrelated name
ExistingSets(name) ==
    {{name} \cup {NumberedName(name, k) : k \in 1 .. m} : m \in 0 .. MaxTaken}
    \cup SUBSET ({name, OtherName}
                 \cup {NumberedName(name, k) : k \in 1 .. MaxGaps})

---------------------------------------------------------------------------
(* The pieces of the orchestrator *)

SyncResult(file, status, detail) ==
    [file |-> file, status |-> status, detail |-> detail]

DuplicateMessage == "duplicate content (same hash already processed)"
TargetDuplicateMessage == "duplicate content (target-detected)"
SuccessMessage == "uploaded successfully"

\* the duplicate check left out
IsDuplicate_Unchecked(file_hash, hashes) == FALSE

\* if file_hash and file_hash in processed_hashes
IsDuplicate(file_hash, hashes) ==
    file_hash # NoHash /\ file_hash \in hashes

\* a slice that stops one file short of the next batch's start
BatchEnd_OneShort(start, n) == Min(start + BatchSize - 1, n)

\* batch_end = min(batch_start + batch_size, len(media_files))
BatchEnd(start, n) == Min(start + BatchSize, n)

\* range(0, len(media_files), batch_size): the start after `start`
NextBatchStart(start) == start + BatchSize

\* media_files[batch_start:batch_end], as <<first, last>> 1-based positions
BatchSlice(start, n) == <<start + 1, BatchEnd(start, n)>>

\* the error of a skipped failure is logged but no SyncResult is appended
UploadFailure_Dropped(file, res, skip) ==
    [raise |-> ~skip, results |-> res]

\* the failure is re-raised whatever skip_errors says
UploadFailure_AlwaysRaise(file, res, skip) ==
    [raise |-> TRUE, results |-> res]

\* the failure is recorded and the loop goes on whatever skip_errors says
UploadFailure_NeverRaise(file, res, skip) ==
    [raise |-> FALSE, results |-> Append(res, SyncResult(file, "error", "error"))]

\* except branch of _upload_files
UploadFailure(file, res, skip) ==
    IF skip
    THEN [raise |-> FALSE, results |-> Append(res, SyncResult(file, "error", "error"))]
    ELSE [raise |-> TRUE, results |-> res]

\* phase 2 is entered for every batch
StagedAny_Always(tokens) == TRUE

\* _process_files: if upload_tokens_and_filenames
StagedAny(tokens) == tokens # <<>>

\* success loop of _create_and_add_media_items
CommitSuccess(mapping, hashes) ==
    [raise   |-> FALSE,
     results |-> [k \in 1 .. Len(mapping) |->
                     SyncResult(mapping[k], "success", SuccessMessage)],
     hashes  |-> hashes \cup
                 ({media_files[mapping[k]] : k \in 1 .. Len(mapping)} \ {NoHash})]

\* only the first file of the failed batch is marked
CommitFailure_FirstOnly(mapping, hashes, skip) ==
    IF skip \/ Len(mapping) = 0
    THEN [raise   |-> FALSE,
          results |-> [k \in 1 .. Min(1, Len(mapping)) |->
                          SyncResult(mapping[k], "error", "error")],
          hashes  |-> hashes]
    ELSE [raise |-> TRUE, results |-> <<>>, hashes |-> hashes]

\* the failure of a batched call is re-raised whatever skip_errors says
CommitFailure_AlwaysRaise(mapping, hashes, skip) ==
    [raise |-> Len(mapping) > 0, results |-> <<>>, hashes |-> hashes]

\* the hashes of a failed batch are marked as processed
CommitFailure_MarksHashes(mapping, hashes, skip) ==
    IF skip \/ Len(mapping) = 0
    THEN [raise   |-> FALSE,
          results |-> [k \in 1 .. Len(mapping) |->
                          SyncResult(mapping[k], "error", "error")],
          hashes  |-> hashes \cup
                      ({media_files[mapping[k]] : k \in 1 .. Len(mapping)} \ {NoHash})]
    ELSE [raise |-> TRUE, results |-> <<>>, hashes |-> hashes]

\* except branch of _create_and_add_media_items: the loop over file_mapping
\* appends an error per file (skip_errors) or re-raises at its first file
CommitFailure(mapping, hashes, skip) ==
    IF skip \/ Len(mapping) = 0
    THEN [raise   |-> FALSE,
          results |-> [k \in 1 .. Len(mapping) |->
                          SyncResult(mapping[k], "error", "error")],
          hashes  |-> hashes]
    ELSE [raise |-> TRUE, results |-> <<>>, hashes |-> hashes]

CountStatus_ErrorsUncounted(res, status) ==
    IF status = "error" THEN 0
    ELSE Cardinality({k \in 1 .. Len(res) : res[k].status = status})

CountStatus(res, status) ==
    Cardinality({k \in 1 .. Len(res) : res[k].status = status})

---------------------------------------------------------------------------
(* State machine *)

\* runs in which the services may fail calls: the album is given by its
\* identifier and holds nothing yet
FaultRuns ==
    /\ album_id = "album123"
    /\ album_name = None
    /\ albums = OneAlbum
    /\ album_content = {}
    /\ drive_files \in FileLists
    /\ subfolders = <<>>
    /\ page_fill = pageSize
    /\ flaky = TRUE

\* runs over short folders with every combination of the album arguments
\* and an album that may hold an item already
QuietRuns ==
    /\ album_id \in AlbumIdArgs
    /\ album_name \in AlbumNameArgs
    /\ albums = OneAlbum
    /\ album_content \in AlbumContents
    /\ drive_files \in QuietFolders
    /\ subfolders = <<>>
    /\ page_fill = pageSize
    /\ flaky = FALSE

\* runs that resolve the album by name in every album list
AlbumRuns ==
    /\ album_id = None
    /\ album_name = "My Album"
    /\ albums \in AlbumLists
    /\ album_content = {}
    /\ drive_files \in TinyFolders
    /\ subfolders = <<>>
    /\ page_fill = pageSize
    /\ flaky = FALSE

\* no call of generate_unique_filename is under way
NameIdle ==
    /\ name_pc = "idle"
    /\ original_name = <<>>
    /\ existing_names = {}
    /\ counter = 0
    /\ new_name = <<>>

\* no call of _filter_files with configured filters is under way
FilterIdle ==
    /\ filter_pc = "idle"
    /\ records = <<>>
    /\ file_types = <<>>
    /\ regex_filter = None
    /\ min_size_kb = <<>>
    /\ max_size_mb = <<>>
    /\ kept = <<>>
    /\ stage_log = <<>>

\* sync() has not been entered
SyncIdle ==
    /\ media_files = <<>>
    /\ batch_start = 0
    /\ idx = 0
    /\ upload_tokens_and_filenames = <<>>
    /\ file_mapping = <<>>
    /\ results = <<>>
    /\ processed_hashes = {}
    /\ success_count = 0
    /\ skip_count = 0
    /\ error_count = 0
    /\ printed = <<>>
    /\ batch_log = <<>>
    /\ download_calls = {}
    /\ upload_calls = {}
    /\ create_calls = <<>>
    /\ add_calls = <<>>
    /\ last_calls = <<>>
    /\ summary = NoSummary
    /\ browser_opened = FALSE
    /\ faults = 0
    /\ target_album_id = None
    /\ all_files = <<>>
    /\ auth_calls = 0
    /\ album_list_calls = 0
    /\ create_album_calls = <<>>
    /\ list_requests = 0
    /\ folders_to_process = <<>>
    /\ current_folder = RootFolder
    /\ page_token = NoToken
    /\ list_log = <<>>
    /\ staged_filenames = <<>>
    /\ add_album_ids = <<>>
    /\ browser_url = None
    /\ library = <<>>
    /\ album_items = <<>>
    /\ media_item_ids = <<>>

\* sync() is not run by main()
MainIdle ==
    /\ drive_folder_input = None
    /\ album_input = None
    /\ exit_code = <<>>

Init ==
    /\ skip_errors \in BOOLEAN
    /\ launch_browser \in BOOLEAN
    /\ (FaultRuns \/ QuietRuns \/ AlbumRuns)
    /\ pc = "init"
    /\ SyncIdle
    /\ MainIdle
    /\ NameIdle
    /\ FilterIdle

\* sync(): raise ValueError("Either album_name or album_id must be provided")
RejectArguments ==
    /\ pc = "init"
    /\ ~ArgumentsGiven(album_id, album_name)
    /\ pc' = "rejected"
    /\ UNCHANGED <<media_files, batch_start, idx,
                   upload_tokens_and_filenames, file_mapping, results,
                   processed_hashes, success_count, skip_count, error_count,
                   printed, batch_log, download_calls, upload_calls,
                   create_calls, add_calls, last_calls, summary,
                   browser_opened, faults>>
    /\ UNCHANGED <<envvars, frontvars, sentvars, namevars, filtervars>>
    /\ UNCHANGED <<itemvars, mainvars>>

\* sync(): credentials = self.auth.authenticate(), the clients are built
Authenticate ==
    /\ pc = "init"
    /\ ArgumentsGiven(album_id, album_name)
    /\ auth_calls' = auth_calls + 1
    /\ pc' = "authenticated"
    /\ UNCHANGED <<media_files, batch_start, idx,
                   upload_tokens_and_filenames, file_mapping, results,
                   processed_hashes, success_count, skip_count, error_count,
                   printed, batch_log, download_calls, upload_calls,
                   create_calls, add_calls, last_calls, summary,
                   browser_opened, faults>>
    /\ UNCHANGED <<target_album_id, all_files, album_list_calls,
                   create_album_calls, list_requests, folders_to_process,
                   current_folder, page_token, list_log>>
    /\ UNCHANGED <<envvars, sentvars, namevars, filtervars>>
    /\ UNCHANGED <<itemvars, mainvars>>

\* sync(): "Determine target album ID"
ResolveAlbum ==
    /\ pc = "authenticated"
    /\ LET r == TargetAlbum(album_id, album_name, albums) IN
       /\ target_album_id' = r.id
       /\ album_list_calls' = album_list_calls + r.requests
       /\ create_album_calls' = create_album_calls \o r.created
    /\ pc' = "resolved"
    /\ UNCHANGED <<media_files, batch_start, idx,
                   upload_tokens_and_filenames, file_mapping, results,
                   processed_hashes, success_count, skip_count, error_count,
                   printed, batch_log, download_calls, upload_calls,
                   create_calls, add_calls, last_calls, summary,
                   browser_opened, faults>>
    /\ UNCHANGED <<all_files, auth_calls, list_requests, folders_to_process,
                   current_folder, page_token, list_log>>
    /\ UNCHANGED <<envvars, sentvars, namevars, filtervars>>
    /\ UNCHANGED <<itemvars, mainvars>>

\* list(self.drive_client.list_files_recursive(...)): one files().list
\* request.  When the folder being listed has no further page the request is
\* for the first page of the next folder of the queue.  The files of the page
\* are appended to all_files and its folders to the queue.
ListPage ==
    /\ pc = "resolved"
    /\ list_requests < MaxRequests
    /\ LET queue  == IF list_requests = 0 THEN <<RootFolder>>
                                          ELSE folders_to_process
           first  == page_token = NoToken
           folder == IF first THEN Dequeue(queue).folder ELSE current_folder
           rest   == IF first THEN Dequeue(queue).rest ELSE queue
           k      == page_token + 1
       IN
       \E outcome \in ListOutcomes :
         LET page    == IF outcome = "ok" THEN PageOf(Listing(folder), k)
                                         ELSE <<>>
             token   == IF outcome = "ok" THEN nextPageToken(Listing(folder), k)
                                         ELSE NoToken
             pending == rest \o Subfolders(page)
         IN
         /\ list_requests' = list_requests + 1
         /\ list_log' = Append(list_log, [folder |-> folder,
                                          pageToken |-> page_token,
                                          outcome |-> outcome])
         /\ current_folder' = folder
         /\ IF ListRaises(outcome)
            THEN /\ pc' = "list_failed"
                 /\ folders_to_process' = rest
                 /\ UNCHANGED <<all_files, page_token>>
            ELSE /\ all_files' = all_files \o Yielded(page)
                 /\ folders_to_process' = pending
                 /\ page_token' = token
                 /\ pc' = IF token # NoToken \/ pending # <<>>
                          THEN "resolved" ELSE "listed"
    /\ UNCHANGED <<media_files, batch_start, idx,
                   upload_tokens_and_filenames, file_mapping, results,
                   processed_hashes, success_count, skip_count, error_count,
                   printed, batch_log, download_calls, upload_calls,
                   create_calls, add_calls, last_calls, summary,
                   browser_opened, faults>>
    /\ UNCHANGED <<target_album_id, auth_calls, album_list_calls,
                   create_album_calls>>
    /\ UNCHANGED <<envvars, sentvars, namevars, filtervars>>
    /\ UNCHANGED <<itemvars, mainvars>>

\* sync(): media_files = self._filter_files(all_files)
FilterFiles ==
    /\ pc = "listed"
    /\ media_files' = _filter_files(all_files)
    /\ pc' = "filtered"
    /\ UNCHANGED <<batch_start, idx,
                   upload_tokens_and_filenames, file_mapping, results,
                   processed_hashes, success_count, skip_count, error_count,
                   printed, batch_log, download_calls, upload_calls,
                   create_calls, add_calls, last_calls, summary,
                   browser_opened, faults>>
    /\ UNCHANGED <<envvars, frontvars, sentvars, namevars, filtervars>>
    /\ UNCHANGED <<itemvars, mainvars>>

\* the early return is missing
NoFilesToSync_Never(files) == FALSE

\* sync(): if not media_files
NoFilesToSync(files) == Len(files) = 0

\* sync(): "if not media_files: ... return"
EmptyReturn ==
    /\ pc = "filtered"
    /\ NoFilesToSync(media_files)
    /\ pc' = "done"
    /\ UNCHANGED <<skip_errors, launch_browser, album_id, album_name, albums,
                   album_content, drive_files, subfolders, page_fill, flaky,
                   media_files, batch_start, idx,
                   upload_tokens_and_filenames, file_mapping, results,
                   processed_hashes, success_count, skip_count, error_count,
                   printed, batch_log, download_calls, upload_calls,
                   create_calls, add_calls, last_calls, summary,
                   browser_opened, faults>>
    /\ UNCHANGED <<frontvars, sentvars, namevars, filtervars>>
    /\ UNCHANGED <<itemvars, mainvars>>

\* sync() enters _process_files_in_batches; first batch is sliced
StartProcessing ==
    /\ pc = "filtered"
    /\ ~NoFilesToSync(media_files)
    /\ processed_hashes' = {}
    /\ success_count' = 0
    /\ skip_count' = 0
    /\ error_count' = 0
    /\ batch_start' = 0
    /\ upload_tokens_and_filenames' = <<>>
    /\ file_mapping' = <<>>
    /\ results' = <<>>
    /\ IF 0 < Len(media_files)
       THEN /\ batch_log' = <<BatchSlice(0, Len(media_files))>>
            /\ idx' = 1
            /\ pc' = "upload"
       ELSE \* range(0, 0, batch_size) is empty: no batch at all
            /\ batch_log' = <<>>
            /\ idx' = 0
            /\ pc' = "processed"
    /\ UNCHANGED <<skip_errors, launch_browser, media_files, printed,
                   download_calls, upload_calls, create_calls, add_calls,
                   last_calls, summary, browser_opened, faults>>
    /\ UNCHANGED <<album_id, album_name, albums, album_content, drive_files, subfolders,
                   page_fill, flaky, frontvars, sentvars, namevars, filtervars>>
    /\ UNCHANGED <<itemvars, mainvars>>

\* one iteration of the loop of _upload_files
UploadFile ==
    /\ pc = "upload"
    /\ LET file_hash == media_files[idx]
           batch_end == batch_log[Len(batch_log)][2]
           next_pc   == IF idx = batch_end THEN "commit" ELSE "upload"
       IN
       \/ /\ IsDuplicate(file_hash, processed_hashes)
          /\ results' = Append(results, SyncResult(idx, "skipped", DuplicateMessage))
          /\ last_calls' = <<>>
          /\ pc' = next_pc
          /\ idx' = idx + 1
          /\ UNCHANGED <<upload_tokens_and_filenames, file_mapping,
                         download_calls, upload_calls, faults,
                         staged_filenames>>
       \/ /\ ~IsDuplicate(file_hash, processed_hashes)
          /\ \E dscript \in ScriptsWithin(StageBudget(Len(media_files), idx, faults)) :
               LET d  == download_file(idx, dscript)
                   f1 == faults + (IF Faulty(dscript) THEN 1 ELSE 0)
               IN
               \E uscript \in (IF d.raised THEN {OkScript}
                                           ELSE ScriptsWithin(StageBudget(Len(media_files), idx, f1))) :
                 LET u      == upload_media(idx, uscript)
                     failed == d.raised \/ u.raised
                     fail   == UploadFailure(idx, results, skip_errors)
                 IN
                 /\ download_calls' = download_calls \cup {idx}
                 /\ upload_calls' = IF d.raised THEN upload_calls
                                                ELSE upload_calls \cup {idx}
                 /\ staged_filenames' =
                        IF d.raised THEN staged_filenames
                        ELSE Append(staged_filenames, FileName(idx))
                 /\ last_calls' = IF d.raised THEN <<d>> ELSE <<d, u>>
                 /\ faults' = f1 + (IF Faulty(uscript) THEN 1 ELSE 0)
                 /\ IF ~failed
                    THEN /\ upload_tokens_and_filenames' =
                                Append(upload_tokens_and_filenames, idx)
                         /\ file_mapping' = Append(file_mapping, idx)
                         /\ results' = results
                         /\ pc' = next_pc
                         /\ idx' = idx + 1
                    ELSE /\ UNCHANGED <<upload_tokens_and_filenames, file_mapping>>
                         /\ results' = fail.results
                         /\ pc' = IF fail.raise THEN "aborted" ELSE next_pc
                         /\ idx' = IF fail.raise THEN idx ELSE idx + 1
    /\ UNCHANGED <<skip_errors, launch_browser, media_files, batch_start,
                   processed_hashes, success_count, skip_count, error_count,
                   printed, batch_log, create_calls, add_calls, summary,
                   browser_opened>>
    /\ UNCHANGED <<album_id, album_name, albums, album_content, drive_files, subfolders,
                   page_fill, flaky, frontvars, add_album_ids, browser_url, namevars, filtervars>>
    /\ UNCHANGED <<itemvars, mainvars>>

\* phase 2 of _process_files for the current batch, then the counting loop
\* of _process_files_in_batches and the step to the next batch
CommitBatch ==
    /\ pc = "commit"
    /\ LET tokens == upload_tokens_and_filenames
           called == StagedAny(tokens)
           n      == Len(media_files)
       IN
       \E cscript \in (IF called THEN CreateScriptsWithin(CommitBudget(n, faults))
                                 ELSE {OkScript}) :
         LET c    == batch_create_media_items(tokens, cscript)
             f1   == faults + (IF Faulty(cscript) THEN 1 ELSE 0)
             ids  == ReturnedIds(library, tokens, cscript, c)
             made == ItemsMadeUpTo(tokens, cscript, c.attempts)
         IN
         \E ascript \in (IF called /\ ~c.raised THEN ScriptsWithin(CommitBudget(n, f1))
                                                ELSE {OkScript}) :
           LET a       == batch_add_media_to_album(ids, ascript)
               failed  == c.raised \/ a.raised
               outcome == IF ~called
                          THEN [raise |-> FALSE, results |-> <<>>,
                                hashes |-> processed_hashes]
                          ELSE IF failed
                          THEN CommitFailure(file_mapping, processed_hashes, skip_errors)
                          ELSE CommitSuccess(file_mapping, processed_hashes)
               all     == results \o outcome.results
               next    == NextBatchStart(batch_start)
           IN
           /\ create_calls' = IF called THEN Append(create_calls, tokens)
                                        ELSE create_calls
           /\ add_calls' = IF called /\ ~c.raised
                           THEN Append(add_calls, ids)
                           ELSE add_calls
           /\ media_item_ids' = IF called THEN ids ELSE media_item_ids
           /\ library' = IF called
                         THEN LibraryAfterCommit(library, made, failed)
                         ELSE library
           /\ album_items' = IF called /\ ~failed
                             THEN album_items \o ids
                             ELSE album_items
           /\ add_album_ids' = IF called /\ ~c.raised
                               THEN Append(add_album_ids, target_album_id)
                               ELSE add_album_ids
           /\ last_calls' = IF ~called THEN <<>>
                            ELSE IF c.raised THEN <<c>> ELSE <<c, a>>
           /\ faults' = f1 + (IF Faulty(ascript) THEN 1 ELSE 0)
           /\ processed_hashes' = outcome.hashes
           /\ IF outcome.raise
              THEN /\ pc' = "aborted"
                   /\ UNCHANGED <<batch_start, idx, upload_tokens_and_filenames,
                                  file_mapping, results, success_count,
                                  skip_count, error_count, printed, batch_log>>
              ELSE /\ printed' = printed \o all
                   /\ success_count' = success_count + CountStatus(all, "success")
                   /\ skip_count' = skip_count + CountStatus(all, "skipped")
                   /\ error_count' = error_count + CountStatus(all, "error")
                   /\ upload_tokens_and_filenames' = <<>>
                   /\ file_mapping' = <<>>
                   /\ results' = <<>>
                   /\ IF next < n
                      THEN /\ batch_start' = next
                           /\ batch_log' = Append(batch_log, BatchSlice(next, n))
                           /\ idx' = next + 1
                           /\ pc' = "upload"
                      ELSE /\ pc' = "processed"
                           /\ UNCHANGED <<batch_start, batch_log, idx>>
    /\ UNCHANGED <<skip_errors, launch_browser, media_files, download_calls,
                   upload_calls, summary, browser_opened>>
    /\ UNCHANGED <<album_id, album_name, albums, album_content, drive_files, subfolders,
                   page_fill, flaky, frontvars, staged_filenames, browser_url, namevars, filtervars>>
    /\ UNCHANGED mainvars

\* sync(): the "Synchronization completed!" / "Results: ..." lines
Report ==
    /\ pc = "processed"
    /\ summary' = <<success_count, skip_count, error_count>>
    /\ pc' = "reported"
    /\ UNCHANGED <<skip_errors, launch_browser, media_files, batch_start, idx,
                   upload_tokens_and_filenames, file_mapping, results,
                   processed_hashes, success_count, skip_count, error_count,
                   printed, batch_log, download_calls, upload_calls,
                   create_calls, add_calls, last_calls, browser_opened, faults>>
    /\ UNCHANGED <<album_id, album_name, albums, album_content, drive_files, subfolders,
                   page_fill, flaky, frontvars, sentvars, namevars, filtervars>>
    /\ UNCHANGED <<itemvars, mainvars>>

\* the browser is opened whenever launch_browser is set
ShouldLaunch_Always(launch, successes) == launch

\* sync(): if self.launch_browser and success_count > 0
ShouldLaunch(launch, successes) == launch /\ successes > 0

\* what webbrowser.open may do: open the page and return True, find no
\* browser and return False, or raise
BrowserOutcomes == {"opened", "refused", "raised"}

\* sync(): if self.launch_browser and success_count > 0: webbrowser.open.
\* The call stands inside the try of sync(), whose except clause logs and
\* re-raises.
Notify ==
    /\ pc = "reported"
    /\ browser_opened' = ShouldLaunch(launch_browser, success_count)
    /\ browser_url' = IF ShouldLaunch(launch_browser, success_count)
                      THEN get_album_url(target_album_id) ELSE browser_url
    /\ \E outcome \in BrowserOutcomes :
         pc' = IF ShouldLaunch(launch_browser, success_count)
                  /\ outcome = "raised"
               THEN "notify_failed" ELSE "done"
    /\ UNCHANGED <<skip_errors, launch_browser, media_files, batch_start, idx,
                   upload_tokens_and_filenames, file_mapping, results,
                   processed_hashes, success_count, skip_count, error_count,
                   printed, batch_log, download_calls, upload_calls,
                   create_calls, add_calls, last_calls, summary, faults>>
    /\ UNCHANGED <<album_id, album_name, albums, album_content, drive_files, subfolders,
                   page_fill, flaky, frontvars, staged_filenames, add_album_ids, namevars, filtervars>>
    /\ UNCHANGED <<itemvars, mainvars>>

Next ==
    \/ RejectArguments
    \/ Authenticate
    \/ ResolveAlbum
    \/ ListPage
    \/ FilterFiles
    \/ EmptyReturn
    \/ StartProcessing
    \/ UploadFile
    \/ CommitBatch
    \/ Report
    \/ Notify

Spec == Init /\ [][Next]_vars

\* one thread of control runs sync() to its end
FairSpec == Spec /\ WF_vars(Next)

---------------------------------------------------------------------------
(* One call of generate_unique_filename, outside any run of sync() *)

NameInit ==
    /\ name_pc = "call"
    /\ original_name \in OriginalNames
    /\ existing_names \in ExistingSets(original_name)
    /\ counter = 0
    /\ new_name = <<>>
    /\ skip_errors = FALSE
    /\ launch_browser = FALSE
    /\ album_id = None
    /\ album_name = None
    /\ albums = OneAlbum
    /\ album_content = {}
    /\ drive_files = <<>>
    /\ subfolders = <<>>
    /\ page_fill = pageSize
    /\ flaky = FALSE
    /\ pc = "init"
    /\ SyncIdle
    /\ MainIdle
    /\ FilterIdle

\* if original_name not in existing_names: return original_name
ReturnOriginal ==
    /\ name_pc = "call"
    /\ original_name \notin existing_names
    /\ new_name' = original_name
    /\ name_pc' = "returned"
    /\ UNCHANGED <<original_name, existing_names, counter>>
    /\ UNCHANGED <<pc, media_files, batch_start, idx,
                   upload_tokens_and_filenames, file_mapping, results,
                   processed_hashes, success_count, skip_count, error_count,
                   printed, batch_log, download_calls, upload_calls,
                   create_calls, add_calls, last_calls, summary,
                   browser_opened, faults>>
    /\ UNCHANGED <<envvars, frontvars, sentvars, filtervars>>
    /\ UNCHANGED <<itemvars, mainvars>>

\* name_parts = ...; base_name = ...; extension = ...; counter = 1
SplitName ==
    /\ name_pc = "call"
    /\ original_name \in existing_names
    /\ counter' = 1
    /\ name_pc' = "loop"
    /\ UNCHANGED <<original_name, existing_names, new_name>>
    /\ UNCHANGED <<pc, media_files, batch_start, idx,
                   upload_tokens_and_filenames, file_mapping, results,
                   processed_hashes, success_count, skip_count, error_count,
                   printed, batch_log, download_calls, upload_calls,
                   create_calls, add_calls, last_calls, summary,
                   browser_opened, faults>>
    /\ UNCHANGED <<envvars, frontvars, sentvars, filtervars>>
    /\ UNCHANGED <<itemvars, mainvars>>

\* one iteration of "while True"
TryCounter ==
    /\ name_pc = "loop"
    /\ IF NumberedName(original_name, counter) \notin existing_names
       THEN /\ new_name' = NumberedName(original_name, counter)
            /\ name_pc' = "returned"
            /\ counter' = counter
       ELSE /\ counter' = counter + 1
            /\ UNCHANGED <<new_name, name_pc>>
    /\ UNCHANGED <<original_name, existing_names>>
    /\ UNCHANGED <<pc, media_files, batch_start, idx,
                   upload_tokens_and_filenames, file_mapping, results,
                   processed_hashes, success_count, skip_count, error_count,
                   printed, batch_log, download_calls, upload_calls,
                   create_calls, add_calls, last_calls, summary,
                   browser_opened, faults>>
    /\ UNCHANGED <<envvars, frontvars, sentvars, filtervars>>
    /\ UNCHANGED <<itemvars, mainvars>>

NameNext ==
    \/ ReturnOriginal
    \/ SplitName
    \/ TryCounter

NameSpec == NameInit /\ [][NameNext]_vars

---------------------------------------------------------------------------
(* The listing of a folder tree: the run of sync() up to the end of *)
(* list_files_recursive *)

\* files directly in one folder of a tree
FolderFileCounts == 0 .. 2

\* entries the service returns per page: fewer than asked for, or pageSize
PageFills == {1, 2, pageSize}

\* the i-th file directly in folder f; every file of a tree has its own id
FileEntry(f, i) == 10 * (f + 1) + i

RECURSIVE Ascending(_)
Ascending(S) ==
    IF S = {} THEN <<>>
    ELSE LET m == CHOOSE x \in S : \A y \in S : x <= y
         IN <<m>> \o Ascending(S \ {m})

Reverse(seq) == [k \in 1 .. Len(seq) |-> seq[Len(seq) + 1 - k]]

\* parent[j] is the folder that holds subfolder j
Parents(K) == {parent \in [1 .. K -> 0 .. (K - 1)] : \A j \in 1 .. K : parent[j] < j}

\* the tree of K subfolders in which folder f holds nf[f] files and lists
\* its subfolders, in ascending or descending order, after its first pos[f]
\* files
MkTree(K, parent, nf, pos, desc) ==
    LET kids(f)  == Ascending({j \in 1 .. K : parent[j] = f})
        order(f) == IF desc THEN Reverse(kids(f)) ELSE kids(f)
        files(f) == [i \in 1 .. nf[f] |-> FileEntry(f, i)]
        listing(f) ==
            SubSeq(files(f), 1, pos[f])
            \o [k \in 1 .. Len(order(f)) |-> FolderEntry(order(f)[k])]
            \o SubSeq(files(f), pos[f] + 1, nf[f])
    IN [root |-> listing(RootFolder), subs |-> [j \in 1 .. K |-> listing(j)]]

TreesOf(K) ==
    {MkTree(K, c[1], c[2], c[3], c[4]) :
        c \in {d \in Parents(K) \X [0 .. K -> FolderFileCounts]
                       \X [0 .. K -> FolderFileCounts] \X BOOLEAN :
                  \A f \in 0 .. K : d[3][f] <= d[2][f]}}

Trees == UNION {TreesOf(K) : K \in 0 .. MaxSubfolders}

ListInit ==
    /\ skip_errors = FALSE
    /\ launch_browser = FALSE
    /\ album_id = "album123"
    /\ album_name = None
    /\ albums = OneAlbum
    /\ album_content = {}
    /\ flaky = FALSE
    /\ \E t \in Trees :
          /\ drive_files = t.root
          /\ subfolders = t.subs
    /\ page_fill \in PageFills
    /\ pc = "init"
    /\ SyncIdle
    /\ MainIdle
    /\ NameIdle
    /\ FilterIdle

ListNext ==
    \/ Authenticate
    \/ ResolveAlbum
    \/ ListPage

ListSpec == ListInit /\ [][ListNext]_vars

\* sync() is one thread that runs until it returns or raises
ListFairSpec == ListSpec /\ WF_vars(ListNext)

\* the tree with the entry of subfolder g added at the end of what folder f
\* lists
AddLink(t, f, g) ==
    IF f = RootFolder
    THEN [root |-> Append(t.root, FolderEntry(g)), subs |-> t.subs]
    ELSE [root |-> t.root,
          subs |-> [t.subs EXCEPT ![f] = Append(@, FolderEntry(g))]]

\* folder structures that are no trees: every folder holds one file, and one
\* folder reports a subfolder that is the child of another folder, which
\* may be a folder above it or itself
Graphs ==
    LET K == MaxSubfolders
        one == [f \in 0 .. K |-> 1]
    IN  {AddLink(MkTree(K, c[1], one, one, FALSE), c[2], c[3]) :
            c \in {d \in Parents(K) \X (0 .. K) \X (1 .. K) :
                      d[1][d[3]] # d[2]}}

GraphInit ==
    /\ skip_errors = FALSE
    /\ launch_browser = FALSE
    /\ album_id = "album123"
    /\ album_name = None
    /\ albums = OneAlbum
    /\ album_content = {}
    /\ flaky = FALSE
    /\ \E t \in Graphs :
          /\ drive_files = t.root
          /\ subfolders = t.subs
    /\ page_fill \in PageFills
    /\ pc = "init"
    /\ SyncIdle
    /\ MainIdle
    /\ NameIdle
    /\ FilterIdle

GraphSpec == GraphInit /\ [][ListNext]_vars

---------------------------------------------------------------------------
(* The filter chain: DriveClient's filters and one call of _filter_files of *)
(* an engine built with any of file_types, regex_filter and size limits.   *)
(* Names, mime types, sizes and patterns are strings.                      *)

CharAt(s, k) == SubSeq(s, k, k)

startswith(s, prefix) ==
    Len(prefix) <= Len(s) /\ SubSeq(s, 1, Len(prefix)) = prefix

endswith(s, suffix) ==
    Len(suffix) <= Len(s)
    /\ SubSeq(s, Len(s) - Len(suffix) + 1, Len(s)) = suffix

UpperCase == "ABCDEFGHIJKLMNOPQRSTUVWXYZ"
LowerCase == "abcdefghijklmnopqrstuvwxyz"

\* str.lower()
RECURSIVE lower(_)
lower(s) ==
    IF Len(s) = 0 THEN s
    ELSE LET c  == CharAt(s, 1)
             ks == {k \in 1 .. Len(UpperCase) : CharAt(UpperCase, k) = c}
         IN (IF ks = {} THEN c ELSE CharAt(LowerCase, CHOOSE k \in ks : TRUE))
            \o lower(SubSeq(s, 2, Len(s)))

\* int(size_str) of a string without sign and blanks: ValueError unless it
\* is a non-empty string of digits
RECURSIVE int(_)
int(s) ==
    IF Len(s) = 0 THEN [ok |-> FALSE, value |-> 0]
    ELSE LET c    == CharAt(s, Len(s))
             ds   == {d \in 1 .. 10 : Digits[d] = c}
             rest == IF Len(s) = 1 THEN [ok |-> TRUE, value |-> 0]
                     ELSE int(SubSeq(s, 1, Len(s) - 1))
         IN IF ds = {} \/ ~rest.ok THEN [ok |-> FALSE, value |-> 0]
            ELSE [ok |-> TRUE,
                  value |-> 10 * rest.value + (CHOOSE d \in ds : TRUE) - 1]

\* truth value of an optional number: None and 0 are false
TruthyNumber(x) == x # <<>> /\ x[1] # 0

\* DriveClient.is_media_file on a record with its mimeType
IsMedia(file_info) ==
    startswith(file_info.mimeType, "image/")
    \/ startswith(file_info.mimeType, "video/")

\* the matches are collected extension by extension
filter_files_by_type_PerExtension(files, allowed_types) ==
    IF allowed_types = <<>> THEN files
    ELSE LET matches(k) ==
                 SelectSeq(files, LAMBDA f :
                     endswith(lower(f.name), "." \o lower(allowed_types[k])))
         IN IF Len(allowed_types) = 1 THEN matches(1)
            ELSE matches(1) \o matches(2)

\* DriveClient.filter_files_by_type
filter_files_by_type(files, allowed_types) ==
    IF allowed_types = <<>> THEN files
    ELSE SelectSeq(files, LAMBDA f :
             \E k \in 1 .. Len(allowed_types) :
                 endswith(lower(f.name), "." \o lower(allowed_types[k])))

\* re.compile raises re.error: a repetition with nothing to repeat, an
\* unterminated character set, an unbalanced parenthesis
re_error(pattern) ==
    LET count(c) == Cardinality({k \in 1 .. Len(pattern) : CharAt(pattern, k) = c})
    IN \/ CharAt(pattern, 1) \in {"*", "+", "?"}
       \/ count("[") > count("]")
       \/ count("(") # count(")")

\* regex.search(filename) for a pattern made of literal characters and ".",
\* with "^" in front or "$" at the end or both
search(pattern, filename) ==
    LET front == startswith(pattern, "^")
        back  == endswith(pattern, "$")
        core  == SubSeq(pattern, IF front THEN 2 ELSE 1,
                        IF back THEN Len(pattern) - 1 ELSE Len(pattern))
    IN \E i \in 1 .. (Len(filename) + 1) :
          /\ i + Len(core) - 1 <= Len(filename)
          /\ front => i = 1
          /\ back => i + Len(core) - 1 = Len(filename)
          /\ \A k \in 1 .. Len(core) :
                CharAt(core, k) \in {".", CharAt(filename, i + k - 1)}

\* an invalid pattern keeps no file
filter_files_by_regex_FailClosed(files, pattern) ==
    IF ~Truthy(pattern) THEN files
    ELSE IF re_error(pattern) THEN <<>>
    ELSE SelectSeq(files, LAMBDA f : search(pattern, f.name))

\* DriveClient.filter_files_by_regex
filter_files_by_regex(files, pattern) ==
    IF ~Truthy(pattern) THEN files
    ELSE IF re_error(pattern) THEN files
    ELSE SelectSeq(files, LAMBDA f : search(pattern, f.name))

\* DriveClient.filter_files_by_size
filter_files_by_size(files, min_kb, max_mb) ==
    SelectSeq(files, LAMBDA f :
        /\ Truthy(f.size)
        /\ int(f.size).ok
        /\ ~(TruthyNumber(min_kb) /\ int(f.size).value < min_kb[1] * 1024)
        /\ ~(TruthyNumber(max_mb) /\ int(f.size).value > max_mb[1] * 1024 * 1024))

\* the records the lists are made of
FileRecord(name, mimeType, size) ==
    [name |-> name, mimeType |-> mimeType, size |-> size]

RecordPool ==
    {FileRecord("photo.JPG", "image/jpeg", "1500000"),
     FileRecord("IMG_1.png", "image/png", "500"),
     FileRecord("clip.mp4", "video/mp4", "10000000"),
     FileRecord("doc.pdf", "application/pdf", "1024"),
     FileRecord("photo2.jpg", "image/jpeg", None),
     FileRecord("IMG_2.jpg", "image/jpeg", "1024"),
     FileRecord("IMG_3.jpg", "image/jpeg", "5242880"),
     FileRecord("big.jpg", "image/jpeg", "5242881")}

RecordLists == UNION {[1 .. n -> RecordPool] : n \in 0 .. MaxRecords}

FileTypeArgs == {<<>>, <<"JPG", "mp4">>}
RegexArgs == {None, "photo", "^IMG", "["}
MinSizeArgs == {<<>>, <<0>>, <<1>>}
MaxSizeArgs == {<<>>, <<0>>, <<5>>}

\* input and output of one stage of the chain
StageRecord(stage, input, output) ==
    [stage |-> stage, input |-> input, output |-> output]

FilterInit ==
    /\ filter_pc = "call"
    /\ records \in RecordLists
    /\ file_types \in FileTypeArgs
    /\ regex_filter \in RegexArgs
    /\ min_size_kb \in MinSizeArgs
    /\ max_size_mb \in MaxSizeArgs
    /\ kept = <<>>
    /\ stage_log = <<>>
    /\ skip_errors = FALSE
    /\ launch_browser = FALSE
    /\ album_id = None
    /\ album_name = None
    /\ albums = OneAlbum
    /\ album_content = {}
    /\ drive_files = <<>>
    /\ subfolders = <<>>
    /\ page_fill = pageSize
    /\ flaky = FALSE
    /\ pc = "init"
    /\ SyncIdle
    /\ MainIdle
    /\ NameIdle

\* media_files = [f for f in all_files if self.drive_client.is_media_file(f)]
MediaStage ==
    /\ filter_pc = "call"
    /\ kept' = SelectSeq(records, IsMedia)
    /\ stage_log' = Append(stage_log, StageRecord("media", records, kept'))
    /\ filter_pc' = "media"
    /\ UNCHANGED <<records, file_types, regex_filter, min_size_kb, max_size_mb>>
    /\ UNCHANGED <<runvars, envvars, frontvars, sentvars, namevars>>
    /\ UNCHANGED <<itemvars, mainvars>>

\* if self.file_types: media_files = filter_files_by_type(media_files, ...)
TypeStage ==
    /\ filter_pc = "media"
    /\ IF file_types # <<>>
       THEN /\ kept' = filter_files_by_type(kept, file_types)
            /\ stage_log' = Append(stage_log, StageRecord("types", kept, kept'))
       ELSE UNCHANGED <<kept, stage_log>>
    /\ filter_pc' = "types"
    /\ UNCHANGED <<records, file_types, regex_filter, min_size_kb, max_size_mb>>
    /\ UNCHANGED <<runvars, envvars, frontvars, sentvars, namevars>>
    /\ UNCHANGED <<itemvars, mainvars>>

\* if self.regex_filter: media_files = filter_files_by_regex(media_files, ...)
RegexStage ==
    /\ filter_pc = "types"
    /\ IF Truthy(regex_filter)
       THEN /\ kept' = filter_files_by_regex(kept, regex_filter)
            /\ stage_log' = Append(stage_log, StageRecord("regex", kept, kept'))
       ELSE UNCHANGED <<kept, stage_log>>
    /\ filter_pc' = "regex"
    /\ UNCHANGED <<records, file_types, regex_filter, min_size_kb, max_size_mb>>
    /\ UNCHANGED <<runvars, envvars, frontvars, sentvars, namevars>>
    /\ UNCHANGED <<itemvars, mainvars>>

\* if self.min_size_kb or self.max_size_mb: media_files =
\* filter_files_by_size(media_files, ...); return media_files
SizeStage ==
    /\ filter_pc = "regex"
    /\ IF TruthyNumber(min_size_kb) \/ TruthyNumber(max_size_mb)
       THEN /\ kept' = filter_files_by_size(kept, min_size_kb, max_size_mb)
            /\ stage_log' = Append(stage_log, StageRecord("size", kept, kept'))
       ELSE UNCHANGED <<kept, stage_log>>
    /\ filter_pc' = "returned"
    /\ UNCHANGED <<records, file_types, regex_filter, min_size_kb, max_size_mb>>
    /\ UNCHANGED <<runvars, envvars, frontvars, sentvars, namevars>>
    /\ UNCHANGED <<itemvars, mainvars>>

FilterNext ==
    \/ MediaStage
    \/ TypeStage
    \/ RegexStage
    \/ SizeStage

FilterSpec == FilterInit /\ [][FilterNext]_vars

---------------------------------------------------------------------------
(* Vocabulary of the properties *)

Files(res) == {res[k].file : k \in 1 .. Len(res)}
Range(seq) == {seq[k] : k \in 1 .. Len(seq)}

\* outcome printed for file i, "none" while there is none
StatusOf(i) ==
    LET ks == {k \in 1 .. Len(printed) : printed[k].file = i} IN
    IF ks = {} THEN "none" ELSE printed[CHOOSE k \in ks : TRUE].status

ErrorResults(mapping) ==
    [k \in 1 .. Len(mapping) |-> SyncResult(mapping[k], "error", "error")]

\* the step being taken made client calls and the last of them raised
StepRaised == last_calls' # <<>> /\ last_calls'[Len(last_calls')].raised

NumBatches(n) == (n + BatchSize - 1) \div BatchSize

ProcessingOver == pc \in {"processed", "reported", "done"}

\* sync() has returned or raised
RunOver == pc \in {"done", "rejected", "aborted", "list_failed", "notify_failed"}

\* waits of the retry policy after 1, 2, ... failed attempts
PolicyWaits == <<1, 2>>

\* the attempts an operation made before it returned all failed
FailedUntilLast(call) ==
    \A a \in 1 .. (call.attempts - 1) : call.outcomes[a] # "ok"

\* media items the target album held when the run began: a created album
\* held none
TargetContent == IF create_album_calls # <<>> THEN {} ELSE album_content
ExistingItems == {c.id : c \in TargetContent}
ExistingFilenames == {c.filename : c \in TargetContent}

\* the stages of sync() in their order
StageRank ==
    CASE pc = "init"          -> 0
      [] pc = "rejected"      -> 0
      [] pc = "authenticated" -> 1
      [] pc = "resolved"      -> 2
      [] pc = "list_failed"   -> 2
      [] pc = "listed"        -> 3
      [] pc = "filtered"      -> 4
      [] pc = "upload"        -> 5
      [] pc = "commit"        -> 5
      [] pc = "aborted"       -> 5
      [] pc = "processed"     -> 6
      [] pc = "reported"      -> 7
      [] pc = "done"          -> 8
      [] pc = "notify_failed" -> 8

\* no client call of the processing phase has been made
NoProcessingCall ==
    /\ download_calls = {}
    /\ upload_calls = {}
    /\ create_calls = <<>>
    /\ add_calls = <<>>
    /\ last_calls = <<>>

\* the listed folder holds no media file
NoMediaListed == \A k \in 1 .. Len(drive_files) : drive_files[k] = NotMedia

---------------------------------------------------------------------------
(* C1..C10: the processing phase and the retry policy *)

\* C1: no file ever has two SyncResults; a staged file waiting for its
\* batch's commit has none yet; inside a batch every file the loop has passed
\* is either staged or has its result, every file of the earlier batches has
\* exactly one printed result; and when the processing phase is over every
\* file of the filtered list has exactly one.
C1_ExactlyOneSyncResult ==
    LET n        == Len(media_files)
        produced == printed \o results
    IN
    /\ Cardinality(Files(produced)) = Len(produced)
    /\ Files(produced) \cap Range(file_mapping) = {}
    /\ pc \in {"upload", "commit"} =>
          /\ Files(printed) = 1 .. batch_start
          /\ Files(results) \cup Range(file_mapping) = (batch_start + 1) .. (idx - 1)
    /\ ProcessingOver => Files(printed) = 1 .. n

C1_Witness ==
    /\ pc = "done"
    /\ skip_errors
    /\ Len(media_files) > BatchSize
    /\ success_count > 0 /\ skip_count > 0 /\ error_count > 0

\* C2 (as claimed): of two files with the same content-hash, once the first
\* has outcome success the second, when it has an outcome, is skipped with
\* the duplicate-content reason and staging was never called for it.
C2_SecondDuplicateSkipped ==
    \A k1, k2 \in 1 .. Len(printed) :
        ( /\ printed[k1].file < printed[k2].file
          /\ media_files[printed[k1].file] # NoHash
          /\ media_files[printed[k1].file] = media_files[printed[k2].file]
          /\ printed[k1].status = "success" )
        => /\ printed[k2].status = "skipped"
           /\ printed[k2].detail = DuplicateMessage
           /\ printed[k2].file \notin upload_calls

\* C3: when the stage loop reaches a file whose content-hash is in
\* ProcessedHashSet, the step appends the skipped result for it, calls
\* neither download nor staging, and stages no token; no such call was made
\* for the file before either.
C3_DuplicateSkippedWithoutCalls ==
    [][ ( /\ pc = "upload"
          /\ media_files[idx] # NoHash
          /\ media_files[idx] \in processed_hashes )
        => /\ results' = Append(results, SyncResult(idx, "skipped", DuplicateMessage))
           /\ last_calls' = <<>>
           /\ idx \notin download_calls'
           /\ idx \notin upload_calls'
           /\ upload_tokens_and_filenames' = upload_tokens_and_filenames
           /\ file_mapping' = file_mapping ]_vars

C3_Witness ==
    /\ \E k \in 1 .. Len(printed) :
          /\ printed[k].status = "skipped"
          /\ printed[k].file \notin download_calls
    /\ download_calls # {}

\* C4: the batches are consecutive slices of the list starting at its first
\* file, each of exactly BatchSize files while more files follow; when the
\* processing phase is over there are ceil(n / BatchSize) of them, the last
\* one ends at the last file, and every file lies in exactly one batch.
C4_BatchesPartitionList ==
    LET n == Len(media_files)
        b == Len(batch_log)
    IN
    /\ b > 0 => batch_log[1][1] = 1
    /\ \A k \in 1 .. b :
          /\ k < b => /\ batch_log[k][2] - batch_log[k][1] + 1 = BatchSize
                      /\ batch_log[k + 1][1] = batch_log[k][2] + 1
          /\ batch_log[k][1] <= batch_log[k][2]
          /\ batch_log[k][2] <= n
    /\ (ProcessingOver /\ n > 0) =>
          /\ b = NumBatches(n)
          /\ batch_log[b][2] = n
          /\ batch_log[b][2] - batch_log[b][1] + 1 = n - BatchSize * (b - 1)
          /\ \A i \in 1 .. n :
                Cardinality({k \in 1 .. b :
                    batch_log[k][1] <= i /\ i <= batch_log[k][2]}) = 1

C4_Witness ==
    /\ pc = "done"
    /\ Len(media_files) = 120
    /\ batch_log = << <<1, 50>>, <<51, 100>>, <<101, 120>> >>

\* C5: with skip_errors on, the step in which a batch's create-items or
\* add-to-album call fails prints the batch's earlier results followed by one
\* error per staged file of that batch and nothing else, leaves the results
\* printed for earlier batches as they were, adds no hash, does not abort,
\* and goes on to the next batch when files remain.
C5_CommitFailureStaysInBatch ==
    [][ (skip_errors /\ pc = "commit" /\ StepRaised)
        => /\ printed' = printed \o results \o ErrorResults(file_mapping)
           /\ Range(file_mapping) # {}
           /\ Range(file_mapping) \subseteq
                 (batch_start + 1) .. BatchEnd(batch_start, Len(media_files))
           /\ error_count' = error_count + CountStatus(results, "error")
                                         + Len(file_mapping)
           /\ processed_hashes' = processed_hashes
           /\ IF batch_start + BatchSize < Len(media_files)
              THEN /\ pc' = "upload"
                   /\ idx' = batch_start + BatchSize + 1
                   /\ upload_tokens_and_filenames' = <<>>
              ELSE pc' = "processed" ]_vars

C5_Witness ==
    /\ pc = "done"
    /\ skip_errors
    /\ Len(media_files) = 120
    /\ StatusOf(1) = "success"
    /\ StatusOf(51) = "error" /\ StatusOf(100) = "error"
    /\ StatusOf(101) = "success"
    /\ Len(create_calls) = 3

\* C6: with skip_errors on, the step in which a file's download or staging
\* fails appends an error result for that file, stages no token for it, and
\* goes on with the rest of the batch; the tokens a batch commits are exactly
\* the tokens staged, none of which belongs to a file with a result.
C6_StageFailureSkipsFile ==
    [][ /\ (skip_errors /\ pc = "upload" /\ StepRaised)
           => /\ results' = Append(results, SyncResult(idx, "error", "error"))
              /\ upload_tokens_and_filenames' = upload_tokens_and_filenames
              /\ file_mapping' = file_mapping
              /\ idx' = idx + 1
              /\ pc' \in {"upload", "commit"}
        /\ (pc = "commit" /\ create_calls' # create_calls)
           => /\ create_calls' = Append(create_calls, upload_tokens_and_filenames)
              /\ Range(upload_tokens_and_filenames) \cap Files(results) = {} ]_vars

C6_Witness ==
    /\ pc = "done"
    /\ skip_errors
    /\ Len(media_files) = 3
    /\ StatusOf(1) = "success"
    /\ StatusOf(2) = "error"
    /\ StatusOf(3) = "success"
    /\ create_calls = << <<1, 3>> >>
    /\ add_calls = << <<ItemBase + 1, ItemBase + 2>> >>

\* C7: with skip_errors off, the step in which a download, staging,
\* create-items or add-to-album call fails ends the run aborted, with nothing
\* printed by it; an aborted run has no summary and no browser, and makes no
\* further call.
C7_StrictModeAborts ==
    [][ /\ (~skip_errors /\ pc \in {"upload", "commit"} /\ StepRaised)
           => /\ pc' = "aborted"
              /\ printed' = printed
        /\ pc' = "aborted" => (summary' = NoSummary /\ ~browser_opened')
        /\ pc = "aborted"
           => UNCHANGED <<pc, download_calls, upload_calls, create_calls,
                          add_calls, summary, browser_opened>> ]_vars

C7_Witness ==
    /\ pc = "aborted"
    /\ ~skip_errors
    /\ launch_browser
    /\ success_count > 0
    /\ last_calls # <<>>
    /\ last_calls[Len(last_calls)].raised

\* position of the run in sync(), counted in steps of the stage loop
Progress ==
    LET n == Len(media_files) IN
    CASE pc = "init"          -> 0 - NumPages(Len(drive_files)) - 4
      [] pc = "authenticated" -> 0 - NumPages(Len(drive_files)) - 3
      [] pc = "resolved"      -> list_requests - NumPages(Len(drive_files)) - 2
      [] pc = "listed"        -> 0 - 1
      [] pc = "list_failed"   -> 0 - 1
      [] pc = "rejected"      -> 0
      [] pc = "filtered"  -> 0
      [] pc = "upload"    -> 2 * idx
      [] pc = "commit"    -> 2 * idx - 1
      [] pc = "processed" -> 2 * n + 3
      [] pc = "reported"  -> 2 * n + 4
      [] pc = "done"      -> 2 * n + 5
      [] pc = "notify_failed" -> 2 * n + 5
      [] pc = "aborted"   -> 2 * n + 6

\* C8: with skip_errors on, no step aborts the run, whatever call failed in
\* it, and every step moves the run forward; the run can always take a step
\* until it has ended; and when the processing phase is left the summary is
\* logged with every batch processed and every file counted.  So the run
\* reaches the summary.
C8_SkipModeReachesSummary ==
    /\ [](skip_errors =>
            /\ pc # "aborted"
            /\ ~RunOver => ENABLED Next
            /\ (pc \in {"reported", "done"} /\ Len(media_files) > 0) =>
                  /\ summary = <<success_count, skip_count, error_count>>
                  /\ Len(batch_log) = NumBatches(Len(media_files))
                  /\ success_count + skip_count + error_count = Len(media_files))
    /\ [][skip_errors => (pc' # "aborted" /\ Progress' > Progress)]_vars

C8_Witness ==
    /\ pc = "done"
    /\ skip_errors
    /\ Len(batch_log) > 1
    /\ Len(create_calls) > Len(add_calls)
    /\ error_count > 0

\* C9 (as claimed): every client operation makes at most max_retries + 1
\* attempts, stops at the first successful one and returns its result, has
\* waited 1 s after the first failed attempt and 2 s after the second and
\* not after the third, and raises the last attempt's error only when all
\* attempts failed.
C9_RetryPolicy ==
    \A c \in 1 .. Len(last_calls) :
        LET call   == last_calls[c]
            failed == IF call.raised THEN call.attempts ELSE call.attempts - 1
        IN
        /\ call.attempts <= max_retries + 1
        /\ FailedUntilLast(call)
        /\ ~call.raised => /\ call.outcomes[call.attempts] = "ok"
                           /\ call.returned = call.attempts
        /\ call.sleeps = SubSeq(PolicyWaits, 1, Min(failed, max_retries))
        /\ call.raised => /\ call.attempts = max_retries + 1
                          /\ call.error = call.outcomes[max_retries + 1]

\* C10 (as claimed): a create-items or add-to-album call whose attempt
\* fails, whatever the failure, is attempted again until an attempt succeeds
\* or max_retries + 1 attempts were made; its error reaches the orchestrator
\* only after the last of them.
C10_CommitCallsRetried ==
    \A c \in 1 .. Len(last_calls) :
        LET call == last_calls[c] IN
        call.op \in {"create", "add"} =>
            /\ call.raised => call.attempts = max_retries + 1
            /\ FailedUntilLast(call)
            /\ ~call.raised => call.outcomes[call.attempts] = "ok"

---------------------------------------------------------------------------
(* C11..C20: duplicates on the target, filenames, and the stages of a run *)

\* C11 (as claimed): a file that was staged and whose media item was
\* already a member of the target album has outcome skipped with the
\* target-detected duplicate reason; it never has outcome success.
C11_TargetDuplicateSkipped ==
    \A k \in 1 .. Len(printed) :
        ( /\ printed[k].file \in upload_calls
          /\ printed[k].file \in ExistingItems
          /\ printed[k].status # "error" )
        => /\ printed[k].status = "skipped"
           /\ printed[k].detail = TargetDuplicateMessage

\* C12 (as claimed): the filenames under which the files of a run are
\* staged are pairwise distinct, and none of them is a filename the target
\* album held already.
C12_StagedNamesUnique ==
    /\ \A j, k \in 1 .. Len(staged_filenames) :
          j # k => staged_filenames[j] # staged_filenames[k]
    /\ \A k \in 1 .. Len(staged_filenames) :
          staged_filenames[k] \notin ExistingFilenames

\* value of a sequence of decimal digits
RECURSIVE DigitsValue(_)
DigitsValue(ds) ==
    IF ds = <<>> THEN 0
    ELSE 10 * DigitsValue(SubSeq(ds, 1, Len(ds) - 1))
         + (CHOOSE v \in 0 .. 9 : Digits[v + 1] = ds[Len(ds)])

\* `name` without its last e characters, "_", the decimal digits of n, and
\* the last e characters of `name`
IsNumbered(result, name, e, n) ==
    LET b == Len(name) - e
        d == Len(result) - Len(name) - 1
    IN
    /\ d >= 1
    /\ SubSeq(result, 1, b) = SubSeq(name, 1, b)
    /\ result[b + 1] = "_"
    /\ \A i \in (b + 2) .. (b + 1 + d) : \E v \in 0 .. 9 : result[i] = Digits[v + 1]
    /\ result[b + 2] # "0"
    /\ DigitsValue(SubSeq(result, b + 2, b + 1 + d)) = n
    /\ SubSeq(result, b + 2 + d, Len(result)) = SubSeq(name, b + 1, Len(name))

\* number of characters of <ext>: the part of the name from its last dot
\* on, nothing for a name without a dot
ExtLen(name) ==
    IF \A i \in 1 .. Len(name) : name[i] # "." THEN 0
    ELSE CHOOSE e \in 1 .. Len(name) :
            /\ name[Len(name) - e + 1] = "."
            /\ \A i \in (Len(name) - e + 2) .. Len(name) : name[i] # "."

\* C13: the name generate_unique_filename returns is never in existing; it
\* is the original name when that is not in existing; otherwise it is
\* <base>_N<ext> for the smallest N >= 1 whose name is not in existing,
\* <ext> being the part from the last dot on; a.jpg with {a.jpg, a_1.jpg,
\* a_2.jpg} gives a_3.jpg and doc with {doc} gives doc_1.
C13_UniqueFilename ==
    name_pc = "returned" =>
        /\ new_name \notin existing_names
        /\ original_name \notin existing_names => new_name = original_name
        /\ original_name \in existing_names =>
              \E n \in 1 .. (Cardinality(existing_names) + 1) :
                  /\ IsNumbered(new_name, original_name, ExtLen(original_name), n)
                  /\ \A m \in 1 .. (n - 1) :
                        \E taken \in existing_names :
                            IsNumbered(taken, original_name, ExtLen(original_name), m)
        /\ ( /\ original_name = <<"a", ".", "j", "p", "g">>
             /\ existing_names = { <<"a", ".", "j", "p", "g">>,
                                   <<"a", "_", "1", ".", "j", "p", "g">>,
                                   <<"a", "_", "2", ".", "j", "p", "g">> } )
           => new_name = <<"a", "_", "3", ".", "j", "p", "g">>
        /\ (original_name = <<"d", "o", "c">> /\ existing_names = {<<"d", "o", "c">>})
           => new_name = <<"d", "o", "c", "_", "1">>

C13_Witness ==
    /\ name_pc = "returned"
    /\ original_name = <<"a", ".", "b", ".", "c">>
    /\ Cardinality(existing_names) = MaxTaken + 1
    /\ new_name = <<"a", ".", "b", "_", "1", "1", ".", "c">>

\* C14: once the filter has run on a folder without a media file, or has
\* left an empty list for any reason, no batch is formed and no download,
\* staging, create-items or add-to-album call is ever made.
C14_EmptyListMakesNoCall ==
    (StageRank >= 4 /\ (Len(media_files) = 0 \/ NoMediaListed)) =>
        /\ NoProcessingCall
        /\ batch_log = <<>>
        /\ staged_filenames = <<>>
        /\ add_album_ids = <<>>
        /\ pc \in {"filtered", "done"}

C14_Witness ==
    /\ pc = "done"
    /\ drive_files # <<>>
    /\ NoMediaListed
    /\ media_files = <<>>
    /\ NoProcessingCall

C16_StagesInOrder ==
    /\ [](/\ auth_calls <= 1
          /\ (album_list_calls > 0 \/ create_album_calls # <<>>
                \/ target_album_id # None) => auth_calls = 1
          /\ list_requests > 0 => (target_album_id # None /\ StageRank >= 2)
          /\ StageRank <= 2 => media_files = <<>>
          /\ StageRank >= 3 =>
                /\ all_files = drive_files
                /\ list_requests = NumPages(Len(drive_files))
          /\ StageRank >= 4 => media_files = SelectSeq(drive_files, is_media_file)
          /\ StageRank <= 4 => (NoProcessingCall /\ batch_log = <<>>)
          /\ summary # NoSummary =>
                /\ StageRank >= 7
                /\ Len(batch_log) = NumBatches(Len(media_files))
                /\ Files(printed) = 1 .. Len(media_files)
          /\ browser_opened =>
                (summary # NoSummary /\ pc \in {"done", "notify_failed"}))
    /\ [][StageRank' >= StageRank]_vars

C16_Witness ==
    /\ pc = "done"
    /\ browser_opened
    /\ list_requests = 2
    /\ Len(batch_log) = 3
    /\ skip_count > 0

\* C17: when an album identifier is supplied, with or without a name, no
\* albums().list and no albums().create request is made, every add-to-album
\* call names that identifier and the opened URL is that album's; and in
\* every run the target identifier, once decided, never changes.
C17_SuppliedAlbumIdUsed ==
    /\ [](Truthy(album_id) =>
            /\ album_list_calls = 0
            /\ create_album_calls = <<>>
            /\ target_album_id \in {None, album_id}
            /\ StageRank >= 2 => target_album_id = album_id
            /\ \A k \in 1 .. Len(add_album_ids) : add_album_ids[k] = album_id
            /\ Len(add_album_ids) = Len(add_calls)
            /\ browser_opened =>
                  browser_url = "https://photos.google.com/lr/album/" \o album_id)
    /\ [][target_album_id # None => target_album_id' = target_album_id]_vars

C17_Witness ==
    /\ pc = "done"
    /\ album_id = "album123"
    /\ album_name = "My Album"
    /\ \E p \in 1 .. Len(albums) : \E k \in 1 .. Len(albums[p]) :
          albums[p][k].title = album_name
    /\ add_album_ids = <<"album123">>
    /\ browser_url = "https://photos.google.com/lr/album/album123"

\* places <<page, position>> of the album list whose title is the name
TitleMatches ==
    {pk \in (1 .. Len(albums)) \X (1 .. 2) :
        /\ pk[2] <= Len(albums[pk[1]])
        /\ albums[pk[1]][pk[2]].title = album_name}

\* the first of them in the order of the pages and, in a page, of its albums
FirstMatch ==
    CHOOSE pk \in TitleMatches :
        \A qk \in TitleMatches :
            pk[1] < qk[1] \/ (pk[1] = qk[1] /\ pk[2] <= qk[2])

\* C18: when only a name is supplied, once the album is resolved: if some
\* album has exactly that title, the target is the first such album in page
\* order, the pages up to its page and no further page were requested, and
\* no album was created; if none has, every page was requested, exactly one
\* album was created, with that name, and the target is the created album.
C18_AlbumFoundOrCreated ==
    (~Truthy(album_id) /\ Truthy(album_name)) =>
        IF StageRank < 2
        THEN /\ album_list_calls = 0
             /\ create_album_calls = <<>>
        ELSE IF TitleMatches # {}
        THEN /\ target_album_id = albums[FirstMatch[1]][FirstMatch[2]].id
             /\ album_list_calls = FirstMatch[1]
             /\ create_album_calls = <<>>
        ELSE /\ target_album_id = CreatedAlbumId
             /\ album_list_calls = Len(albums)
             /\ create_album_calls = <<album_name>>

C18_Witness ==
    /\ pc = "done"
    /\ album_id = None
    /\ Len(albums) = 2
    /\ Len(albums[1]) = 1
    /\ albums[1][1].title = "my album"
    /\ Len(albums[2]) = 2
    /\ albums[2][1].title = "My Album"
    /\ albums[2][2].title = "My Album"
    /\ target_album_id = albums[2][1].id
    /\ add_album_ids = <<albums[2][1].id>>

\* C19: a run given neither an album name nor an album identifier is
\* rejected in its first step, before authentication and before any call to
\* the source or the target; no other run is rejected.
C19_MissingAlbumRejected ==
    /\ []((~Truthy(album_id) /\ ~Truthy(album_name)) =>
            /\ pc \in {"init", "rejected"}
            /\ auth_calls = 0
            /\ album_list_calls = 0
            /\ create_album_calls = <<>>
            /\ list_requests = 0
            /\ target_album_id = None
            /\ NoProcessingCall)
    /\ [](pc = "rejected" => (~Truthy(album_id) /\ ~Truthy(album_name)))
    /\ [][(pc = "init" /\ ~Truthy(album_id) /\ ~Truthy(album_name))
            => pc' = "rejected"]_vars

C19_Witness ==
    /\ pc = "rejected"
    /\ album_id = None
    /\ album_name = None
    /\ auth_calls = 0

\* C20: a run that ends has opened the browser if and only if
\* launch_browser is set and its success count is greater than 0; the
\* browser is opened by no run that has not ended, and on the target
\* album's URL.
C20_BrowserIffSuccess ==
    /\ pc = "done" =>
          (browser_opened <=> (launch_browser /\ success_count > 0))
    /\ browser_opened =>
          /\ pc \in {"done", "notify_failed"}
          /\ summary[1] > 0
          /\ browser_url = "https://photos.google.com/lr/album/" \o target_album_id
    /\ ~browser_opened => browser_url = None

C20_Witness ==
    /\ pc = "done"
    /\ browser_opened
    /\ skip_count > 0
    /\ error_count > 0

---------------------------------------------------------------------------
(* C21..C30: notification, the lister, the filter chain, the commit *)

\* C21 (as claimed): once the summary is logged the run can only end
\* normally: whatever webbrowser.open does, sync() returns.
C21_NotifyNeverThrows ==
    (summary # NoSummary /\ RunOver) => pc = "done"

\* folders of the listed tree, and the files it holds
Folders == 0 .. Len(subfolders)
FilesIn(seq) == SelectSeq(seq, LAMBDA e : e < FolderBase)
TreeFiles == UNION {Range(FilesIn(Listing(f))) : f \in Folders}

\* the folder whose listing holds the entry, and the folder above a subfolder
HomeOf(e) == CHOOSE f \in Folders : e \in Range(Listing(f))
ParentOf(j) == HomeOf(FolderBase + j)
PositionIn(e, seq) == CHOOSE k \in 1 .. Len(seq) : seq[k] = e

RECURSIVE Depth(_)
Depth(f) == IF f = RootFolder THEN 0 ELSE 1 + Depth(ParentOf(f))

\* breadth-first order of the folders: by depth, then by the order of the
\* folders above them, then by the position in the listing they share
RECURSIVE BreadthFirstBefore(_, _)
BreadthFirstBefore(f, g) ==
    /\ f # g
    /\ \/ Depth(f) < Depth(g)
       \/ /\ Depth(f) = Depth(g)
          /\ IF ParentOf(f) = ParentOf(g)
             THEN PositionIn(FolderBase + f, Listing(ParentOf(f)))
                  < PositionIn(FolderBase + g, Listing(ParentOf(g)))
             ELSE BreadthFirstBefore(ParentOf(f), ParentOf(g))

\* C22: list_files_recursive never yields a folder and yields no entry
\* twice; what it yields are files of the tree; and when the listing is over
\* it has yielded every file of the root and of every descendant folder,
\* whatever the number of pages the folders come in.
C22_ListsEveryFileOnce ==
    /\ \A k \in 1 .. Len(all_files) : all_files[k] < FolderBase
    /\ \A a, b \in 1 .. Len(all_files) : a < b => all_files[a] # all_files[b]
    /\ Range(all_files) \subseteq TreeFiles
    /\ pc = "listed" =>
          /\ Range(all_files) = TreeFiles
          /\ Len(all_files) = Cardinality(TreeFiles)

C22_Witness ==
    /\ pc = "listed"
    /\ page_fill = 1
    /\ Len(subfolders) = 2
    /\ ParentOf(2) = 1
    /\ Len(all_files) = 6
    /\ list_requests = 8

\* C23: of two yielded files the one yielded first is in the same folder
\* and earlier in its listing, or in a folder that comes earlier in the
\* breadth-first order from the root; so no file is yielded before a file
\* of smaller depth.
C23_BreadthFirstOrder ==
    \A a, b \in 1 .. Len(all_files) :
        a < b =>
            LET fa == HomeOf(all_files[a])
                fb == HomeOf(all_files[b])
            IN /\ Depth(fa) <= Depth(fb)
               /\ IF fa = fb
                  THEN PositionIn(all_files[a], Listing(fa))
                       < PositionIn(all_files[b], Listing(fb))
                  ELSE BreadthFirstBefore(fa, fb)

C23_Witness ==
    /\ pc = "listed"
    /\ Len(subfolders) = 2
    /\ drive_files = <<FolderBase + 2, FolderBase + 1, FileEntry(0, 1)>>
    /\ all_files = <<FileEntry(0, 1), FileEntry(2, 1), FileEntry(1, 1)>>

\* requests made so far for the folder f
RequestsOf(f) ==
    Cardinality({i \in 1 .. Len(list_log) : list_log[i].folder = f})

\* the files of the pages the requests of a log asked for, in request order
RECURSIVE FilesOfPages(_)
FilesOfPages(log) ==
    IF log = <<>> THEN <<>>
    ELSE LET last == log[Len(log)] IN
         FilesOfPages(SubSeq(log, 1, Len(log) - 1))
         \o FilesIn(PageOf(Listing(last.folder), last.pageToken + 1))

\* C24: a request carries no token when it is the first of its folder and
\* otherwise the token of the response before it, which was a page with a
\* successor; every file of every page asked for so far has been yielded
\* when the next request is made; and a folder of p pages costs at most p
\* requests, and exactly p when the listing is over.
C24_PagesDrainedInOrder ==
    /\ \A i \in 1 .. Len(list_log) :
          IF i > 1 /\ list_log[i - 1].folder = list_log[i].folder
          THEN /\ list_log[i].pageToken = list_log[i - 1].pageToken + 1
               /\ HasNextPage(Listing(list_log[i].folder), list_log[i].pageToken)
          ELSE list_log[i].pageToken = NoToken
    /\ all_files = FilesOfPages(list_log)
    /\ \A f \in Folders :
          /\ RequestsOf(f) <= NumPages(Len(Listing(f)))
          /\ pc = "listed" => RequestsOf(f) = NumPages(Len(Listing(f)))

C24_Witness ==
    /\ pc = "listed"
    /\ page_fill = 2
    /\ Len(drive_files) = 3
    /\ Len(list_log) > 2
    /\ list_log[1].pageToken = NoToken
    /\ list_log[2].pageToken = 1
    /\ list_log[2].folder = RootFolder
    /\ list_log[3].pageToken = NoToken

\* C25: a files().list request that fails is the last request of the run:
\* it is not made again, the run has failed with it and takes no further
\* step, with skip_errors set or not; nothing was filtered, no batch was
\* formed, no download, staging, create-items or add-to-album call was made
\* and no summary was logged.
C25_ListingFailureAborts ==
    /\ [](/\ \A i \in 1 .. Len(list_log) :
                list_log[i].outcome # "ok" =>
                    (i = Len(list_log) /\ pc = "list_failed")
          /\ pc = "list_failed" =>
                /\ list_log # <<>>
                /\ list_log[Len(list_log)].outcome # "ok"
                /\ media_files = <<>>
                /\ batch_log = <<>>
                /\ NoProcessingCall
                /\ staged_filenames = <<>>
                /\ summary = NoSummary
                /\ ~browser_opened)
    /\ [][pc # "list_failed"]_vars

C25_Witness ==
    /\ pc = "list_failed"
    /\ skip_errors
    /\ list_requests = 2
    /\ Len(all_files) = pageSize
    /\ list_log[2].outcome = "http"

\* a is b with some of its elements left out
RECURSIVE IsSublist(_, _)
IsSublist(a, b) ==
    IF a = <<>> THEN TRUE
    ELSE IF b = <<>> THEN FALSE
    ELSE IF Head(a) = Head(b) THEN IsSublist(Tail(a), Tail(b))
    ELSE IsSublist(a, Tail(b))

StageOrder == <<"media", "types", "regex", "size">>
StageIndex(stage) == CHOOSE k \in 1 .. Len(StageOrder) : StageOrder[k] = stage
StagesApplied == {stage_log[i].stage : i \in 1 .. Len(stage_log)}

\* C26: the stages applied come in the order media-type, extensions,
\* regex, size; the first works on the list given to the chain and every
\* other one on the output of the stage before it; the output of a stage is
\* its input with some records left out, in the same order, so never
\* longer; the media-type stage is always applied, the extension and regex
\* stages when configured; and the chain returns the last output.
C26_StagesInFixedOrder ==
    /\ \A i \in 1 .. Len(stage_log) :
          /\ stage_log[i].input = IF i = 1 THEN records
                                           ELSE stage_log[i - 1].output
          /\ IsSublist(stage_log[i].output, stage_log[i].input)
          /\ Len(stage_log[i].output) <= Len(stage_log[i].input)
          /\ i > 1 => StageIndex(stage_log[i - 1].stage)
                          < StageIndex(stage_log[i].stage)
    /\ stage_log # <<>> =>
          /\ stage_log[1].stage = "media"
          /\ kept = stage_log[Len(stage_log)].output
    /\ filter_pc = "returned" =>
          /\ "types" \in StagesApplied <=> file_types # <<>>
          /\ "regex" \in StagesApplied <=> Truthy(regex_filter)

C26_Witness ==
    /\ filter_pc = "returned"
    /\ records = <<FileRecord("clip.mp4", "video/mp4", "10000000"),
                   FileRecord("photo.JPG", "image/jpeg", "1500000")>>
    /\ Len(stage_log) = 4
    /\ stage_log[2].output = records
    /\ kept = <<FileRecord("photo.JPG", "image/jpeg", "1500000")>>

\* C27 (as claimed): the size stage keeps exactly the records that report a
\* size of at least min_size_kb * 1024 bytes when a minimum is configured
\* and of at most max_size_mb * 1024 * 1024 bytes when a maximum is
\* configured; a record without a size is never kept.
C27_SizeWithinLimits ==
    \A i \in 1 .. Len(stage_log) :
        stage_log[i].stage = "size" =>
            stage_log[i].output =
                SelectSeq(stage_log[i].input, LAMBDA f :
                    /\ Truthy(f.size)
                    /\ min_size_kb # <<>> =>
                          int(f.size).value >= min_size_kb[1] * 1024
                    /\ max_size_mb # <<>> =>
                          int(f.size).value <= max_size_mb[1] * 1024 * 1024)

\* C28: with a pattern re.compile rejects, the regex stage is applied and
\* returns its input unchanged; the call goes on from it to the size stage
\* and to its return, and returns what the size filter keeps of that input.
C28_InvalidRegexIsNoOp ==
    /\ []((Truthy(regex_filter) /\ re_error(regex_filter)) =>
            /\ \A i \in 1 .. Len(stage_log) :
                  stage_log[i].stage = "regex" =>
                      stage_log[i].output = stage_log[i].input
            /\ filter_pc \in {"regex", "returned"} => "regex" \in StagesApplied
            /\ filter_pc = "returned" =>
                  /\ (TruthyNumber(min_size_kb) \/ TruthyNumber(max_size_mb))
                        => stage_log[Len(stage_log)].stage = "size"
                  /\ \E i \in 1 .. Len(stage_log) :
                        /\ stage_log[i].stage = "regex"
                        /\ IsSublist(kept, stage_log[i].input)
                        /\ (i = Len(stage_log)) => kept = stage_log[i].input)
    /\ [][/\ filter_pc = "types" => filter_pc' = "regex"
          /\ filter_pc = "regex" => filter_pc' = "returned"]_vars

C28_Witness ==
    /\ filter_pc = "returned"
    /\ regex_filter = "["
    /\ Len(stage_log) = 4
    /\ Len(stage_log[3].output) = 2
    /\ Len(kept) = 1

\* hashes of the files whose printed outcome is success
SuccessHashes ==
    {media_files[i] : i \in {j \in 1 .. Len(media_files) : StatusOf(j) = "success"}}
    \ {NoHash}

\* C29: ProcessedHashSet is empty until the processing starts, never loses
\* a hash, and changes only in the step that commits a batch without a
\* failure; at every moment it holds exactly the hashes of the files whose
\* outcome is success, so the hash of a file that was skipped, whose
\* download or staging failed, or whose batch failed to commit is not added.
C29_HashesOfSuccesses ==
    /\ [](/\ processed_hashes = SuccessHashes
          /\ StageRank <= 4 => processed_hashes = {})
    /\ [][/\ processed_hashes \subseteq processed_hashes'
          /\ processed_hashes' # processed_hashes =>
                /\ pc = "commit"
                /\ ~StepRaised
                /\ processed_hashes' = processed_hashes \cup
                      ({media_files[file_mapping[k]] :
                            k \in 1 .. Len(file_mapping)} \ {NoHash})]_vars

C29_Witness ==
    /\ pc = "done"
    /\ processed_hashes = {1}
    /\ success_count = 2
    /\ \E i \in 1 .. Len(media_files) :
          /\ StatusOf(i) = "error"
          /\ media_files[i] = 2

\* C30: the step that ends a batch calls create-items exactly when the
\* batch staged a file, once, with all the files staged in the batch in
\* staging order; it calls add-to-album after it, once, with the items
\* created, exactly when create-items did not fail; no other step calls
\* either.
C30_CreateThenAdd ==
    [][/\ pc # "commit" => UNCHANGED <<create_calls, add_calls, add_album_ids>>
       /\ (pc = "commit" /\ upload_tokens_and_filenames = <<>>) =>
             /\ UNCHANGED <<create_calls, add_calls, add_album_ids>>
             /\ last_calls' = <<>>
       /\ (pc = "commit" /\ upload_tokens_and_filenames # <<>>) =>
             /\ upload_tokens_and_filenames = file_mapping
             /\ \A k \in 1 .. (Len(file_mapping) - 1) :
                   file_mapping[k] < file_mapping[k + 1]
             /\ Range(file_mapping) \subseteq
                   batch_log[Len(batch_log)][1] .. batch_log[Len(batch_log)][2]
             /\ create_calls' = Append(create_calls, upload_tokens_and_filenames)
             /\ last_calls'[1].op = "create"
             /\ last_calls'[1].arg = upload_tokens_and_filenames
             /\ IF last_calls'[1].raised
                THEN /\ Len(last_calls') = 1
                     /\ UNCHANGED <<add_calls, add_album_ids>>
                ELSE /\ Len(last_calls') = 2
                     /\ last_calls'[2].op = "add"
                     /\ last_calls'[2].arg = media_item_ids'
                     /\ add_calls' = Append(add_calls, media_item_ids')
                     /\ add_album_ids' = Append(add_album_ids, target_album_id)]_vars

C30_Witness ==
    /\ pc = "done"
    /\ Len(batch_log) = 3
    /\ Len(create_calls) = 3
    /\ Len(add_calls) = 2
    /\ Len(create_calls[3]) = 20

---------------------------------------------------------------------------
(* main(): the command around sync() *)

MaxMainFiles == 2

IdChars ==
    {CharAt(UpperCase, i) : i \in 1 .. Len(UpperCase)} \cup
    {CharAt(LowerCase, i) : i \in 1 .. Len(LowerCase)} \cup
    {Digits[i] : i \in 1 .. Len(Digits)} \cup {"-", "_"}

\* sub in s
Contains(s, sub) ==
    \E p \in 1 .. (Len(s) - Len(sub) + 1) : SubSeq(s, p, p + Len(sub) - 1) = sub

\* last position of the run of [a-zA-Z0-9-_] that position k of s is in
RECURSIVE RunEnd(_, _)
RunEnd(s, k) ==
    IF k < Len(s) /\ CharAt(s, k + 1) \in IdChars THEN RunEnd(s, k + 1) ELSE k

\* re.search(prefix + '([a-zA-Z0-9-_]+)', s): group(1) of the leftmost
\* match, None when nothing matches
search_group(prefix, s) ==
    LET starts == {p \in 1 .. Len(s) :
                      /\ p + Len(prefix) <= Len(s)
                      /\ SubSeq(s, p, p + Len(prefix) - 1) = prefix
                      /\ CharAt(s, p + Len(prefix)) \in IdChars}
    IN  IF starts = {} THEN None
        ELSE LET p == CHOOSE q \in starts : \A r \in starts : q <= r
             IN  SubSeq(s, p + Len(prefix), RunEnd(s, p + Len(prefix)))

extract_folder_id_from_url(url) ==
    IF ~Contains(url, "/") /\ Len(url) > 10 THEN url
    ELSE IF search_group("/folders/", url) # None
    THEN search_group("/folders/", url)
    ELSE search_group("id=", url)

extract_album_id_from_url(url) == search_group("/album/", url)

\* sync() raised: the ValueError, or what its except clause re-raised
SyncRaised(p) ==
    p \in {"rejected", "aborted", "list_failed", "notify_failed"}

\* status main() ends with once sync() has returned or raised
ExitCode_AlwaysZero(p) == 0

ExitCode(p) == IF SyncRaised(p) THEN 1 ELSE 0

\* the folder argument: a bare identifier, a folder URL, a short word and a
\* URL of no folder
FolderArgs ==
    {"1AbCdEfGhIjKlMnOp",
     "https://drive.google.com/drive/folders/1AbC-dEf_9?usp=sharing",
     "myfolder",
     "https://drive.google.com/drive/my-drive"}

\* the album argument: a name, an album URL and the empty string
AlbumArgs ==
    {"My Album", "https://photos.google.com/lr/album/album123", ""}

MainFolders == {MkFiles(n, 0) : n \in 0 .. MaxMainFiles}

MainInit ==
    /\ skip_errors \in BOOLEAN
    /\ launch_browser \in BOOLEAN
    /\ drive_folder_input \in FolderArgs
    /\ album_input \in AlbumArgs
    /\ exit_code = <<>>
    /\ album_id = None
    /\ album_name = None
    /\ albums = OneAlbum
    /\ album_content = {}
    /\ drive_files \in MainFolders
    /\ subfolders = <<>>
    /\ page_fill = pageSize
    /\ flaky \in BOOLEAN
    /\ pc = "main"
    /\ SyncIdle
    /\ NameIdle
    /\ FilterIdle

\* main(): the folder reference is checked, the album argument is split
\* into name and identifier, and sync() is entered
ResolveArguments ==
    /\ pc = "main"
    /\ exit_code = <<>>
    /\ LET drive_folder_id == extract_folder_id_from_url(drive_folder_input)
           extracted_id    == extract_album_id_from_url(album_input)
       IN
       IF ~Truthy(drive_folder_id)
       THEN /\ exit_code' = <<1>>
            /\ UNCHANGED <<pc, album_id, album_name>>
       ELSE /\ pc' = "init"
            /\ album_id' = IF Truthy(extracted_id) THEN extracted_id ELSE None
            /\ album_name' = IF Truthy(extracted_id) THEN None ELSE album_input
            /\ UNCHANGED exit_code
    /\ UNCHANGED <<drive_folder_input, album_input>>
    /\ UNCHANGED <<skip_errors, launch_browser, albums, album_content,
                   drive_files, subfolders, page_fill, flaky>>
    /\ UNCHANGED <<media_files, batch_start, idx,
                   upload_tokens_and_filenames, file_mapping, results,
                   processed_hashes, success_count, skip_count, error_count,
                   printed, batch_log, download_calls, upload_calls,
                   create_calls, add_calls, last_calls, summary,
                   browser_opened, faults>>
    /\ UNCHANGED <<frontvars, sentvars, namevars, filtervars, itemvars>>

\* main(): except KeyboardInterrupt, raised at any point before sync()
\* has ended
Interrupt ==
    /\ exit_code = <<>>
    /\ pc \notin {"done", "interrupted"}
    /\ ~SyncRaised(pc)
    /\ pc' = "interrupted"
    /\ exit_code' = <<1>>
    /\ UNCHANGED <<drive_folder_input, album_input>>
    /\ UNCHANGED <<media_files, batch_start, idx,
                   upload_tokens_and_filenames, file_mapping, results,
                   processed_hashes, success_count, skip_count, error_count,
                   printed, batch_log, download_calls, upload_calls,
                   create_calls, add_calls, last_calls, summary,
                   browser_opened, faults>>
    /\ UNCHANGED <<envvars, frontvars, sentvars, namevars, filtervars, itemvars>>

\* main(): sync() returned and main() falls off its end, or sync() raised
\* and except Exception exits
Exit ==
    /\ exit_code = <<>>
    /\ pc = "done" \/ SyncRaised(pc)
    /\ exit_code' = <<ExitCode(pc)>>
    /\ UNCHANGED <<drive_folder_input, album_input>>
    /\ UNCHANGED runvars
    /\ UNCHANGED <<envvars, frontvars, sentvars, namevars, filtervars, itemvars>>

MainNext ==
    \/ ResolveArguments
    \/ Interrupt
    \/ Exit
    \/ RejectArguments
    \/ Authenticate
    \/ ResolveAlbum
    \/ ListPage
    \/ FilterFiles
    \/ EmptyReturn
    \/ StartProcessing
    \/ UploadFile
    \/ CommitBatch
    \/ Report
    \/ Notify

MainSpec == MainInit /\ [][MainNext]_vars

---------------------------------------------------------------------------
(* C31..C40: counts, exit codes, printing, the target's items, traversal *)

\* a size limit was supplied by the caller, whatever its value
SizeLimitSupplied == min_size_kb # <<>> \/ max_size_mb # <<>>

\* C37 (as claimed): whenever the caller supplied a minimum or a maximum,
\* a supplied 0 included, the filter chain applies the size stage: no record
\* without a reported size is in the returned list.
C37_SuppliedLimitAppliesSizeStage ==
    (filter_pc = "returned" /\ SizeLimitSupplied) =>
        \A i \in 1 .. Len(kept) : Truthy(kept[i].size)

\* number of SyncResults with an outcome among those surfaced so far
Surfaced(status) ==
    Cardinality({k \in 1 .. Len(printed) : printed[k].status = status})

\* C31: the three counters always equal the numbers of SyncResults with
\* those outcomes over the batches processed so far, and once the
\* processing phase has completed they add up to the number of files in
\* the filtered list.
C31_CountsMatchResults ==
    /\ success_count = Surfaced("success")
    /\ skip_count = Surfaced("skipped")
    /\ error_count = Surfaced("error")
    /\ ProcessingOver =>
          success_count + skip_count + error_count = Len(media_files)

C31_Witness ==
    /\ pc = "processed"
    /\ Len(batch_log) > 1
    /\ success_count > 0
    /\ skip_count > 0
    /\ error_count > 0

\* C33 (as claimed): a SyncResult is printed as soon as it is produced:
\* whenever the next file is about to be downloaded, the batch is about to
\* be committed, or the run has aborted, every result produced so far has
\* been printed.
C33_PrintedAsProduced ==
    pc \in {"upload", "commit", "aborted"} =>
        \A k \in 1 .. Len(results) : results[k] \in Range(printed)

\* identifiers of the media items on the target
ItemIds == {ItemBase + k : k \in 1 .. Len(library)}

\* upload token the item with an identifier was created from
TokenOf(id) == library[id - ItemBase]

\* number of items on the target created from an upload token
Copies(token) == Cardinality({k \in 1 .. Len(library) : library[k] = token})

\* C34 (as claimed): what upload_media returns for a file is the identifier
\* of a media item on the target that was created from the bytes just
\* uploaded.
C34_UploadReturnsItemId ==
    [][(pc = "upload" /\ Len(upload_tokens_and_filenames') >
                            Len(upload_tokens_and_filenames)) =>
          LET returned == upload_tokens_and_filenames'[
                              Len(upload_tokens_and_filenames')]
          IN  /\ returned \in {ItemBase + k : k \in 1 .. Len(library')}
              /\ library'[returned - ItemBase] = idx]_vars

\* C35 (as claimed): a file has outcome success only if an item created
\* from its own upload token is among the items added to the target album.
C35_SuccessHasItemInAlbum ==
    \A k \in 1 .. Len(printed) :
        printed[k].status = "success" =>
            \E id \in Range(album_items) :
                id \in ItemIds /\ TokenOf(id) = printed[k].file

\* C36 (as claimed): over the attempts of one create-items call, every
\* upload token leads to at most one media item on the target.
C36_OneItemPerToken ==
    \A k \in 1 .. Len(library) : Copies(library[k]) <= 1

IsPrefix(a, b) == Len(a) <= Len(b) /\ SubSeq(b, 1, Len(a)) = a

\* C38: no step removes or changes an item of the library or of the album:
\* both only grow at their end, and only in the step that ends a batch.
\* The items create-items returned in a step are on the target after it,
\* also when add-to-album then failed or the step aborted the run, and a
\* failed add-to-album leaves the album as it was.  Every item of the album
\* is an item of the library.
C38_NoCompensation ==
    /\ [](Range(album_items) \subseteq ItemIds)
    /\ [][/\ IsPrefix(library, library')
          /\ IsPrefix(album_items, album_items')
          /\ pc # "commit" => UNCHANGED <<library, album_items>>
          /\ (pc = "commit" /\ last_calls' # <<>>) =>
                /\ ~last_calls'[1].raised =>
                      /\ media_item_ids' # <<>>
                      /\ \A id \in Range(media_item_ids') :
                            /\ id - ItemBase \in (Len(library) + 1) .. Len(library')
                            /\ library'[id - ItemBase] \in
                                   Range(upload_tokens_and_filenames)
                /\ (last_calls'[Len(last_calls')].raised) =>
                      album_items' = album_items]_vars

C38_Witness ==
    /\ pc = "aborted"
    /\ Len(batch_log) = 2
    /\ Len(create_calls) = 2
    /\ Len(add_calls) = 2
    /\ Len(library) = 2 * BatchSize
    /\ Len(album_items) = BatchSize

\* folder arguments that hold no folder identifier
InvalidFolderArgs == {"myfolder", "https://drive.google.com/drive/my-drive"}

\* C32: the command always comes to an exit; it exits with 1 exactly when
\* the folder reference was invalid (sync() is never entered), when sync()
\* raised (rejected arguments, a failed listing, an aborted processing phase,
\* a raising browser call) or when the user interrupted it, and with 0 when
\* sync() returned, whatever the outcomes of the files were.
C32_ExitCodes ==
    /\ exit_code = <<>> => ENABLED MainNext
    /\ exit_code # <<>> =>
          /\ pc \in {"main", "interrupted", "done", "rejected", "aborted",
                     "list_failed", "notify_failed"}
          /\ exit_code = IF pc = "done" THEN <<0>> ELSE <<1>>
          /\ pc = "main" => drive_folder_input \in InvalidFolderArgs
    /\ drive_folder_input \in InvalidFolderArgs =>
          /\ pc \in {"main", "interrupted"}
          /\ auth_calls = 0

C32_Witness ==
    /\ exit_code = <<0>>
    /\ skip_errors
    /\ Len(media_files) = 2
    /\ error_count = 2

\* number of first-page requests made for a folder: the times it was taken
\* off the queue and listed
TimesListed(f) ==
    Cardinality({i \in 1 .. Len(list_log) :
                    list_log[i].folder = f /\ list_log[i].pageToken = NoToken})

\* C39: on a folder tree whose requests all succeed the traversal ends: a
\* state is reached in which the listing is over, the folder queue is
\* empty, and every folder of the tree has been taken off the queue and
\* listed exactly once.
C39_TraversalTerminates ==
    <>(/\ pc = "listed"
       /\ folders_to_process = <<>>
       /\ \A f \in Folders : TimesListed(f) = 1)

C39_Witness ==
    /\ pc = "listed"
    /\ folders_to_process = <<>>
    /\ Len(subfolders) = 2
    /\ ParentOf(2) = 1
    /\ RequestsOf(2) = 2
    /\ \A f \in Folders : TimesListed(f) = 1

\* C40 (as claimed): in one traversal no folder is listed twice and no file
\* is yielded twice, also when a folder is reported as a child of two
\* folders or as its own descendant.
C40_ListedAtMostOnce ==
    /\ \A f \in Folders : TimesListed(f) <= 1
    /\ \A a, b \in 1 .. Len(all_files) : a < b => all_files[a] # all_files[b]

=============================================================================
